---- MODULE Spec2Model ----
(***************************************************************************)
(* A model of ArrowFragmentLoader (modules/graph/loader/                   *)
(* arrow_fragment_loader.h): the distributed load of a partitioned         *)
(* property graph.  Every worker runs LoadFragmentAsFragmentGroup; workers *)
(* meet in blocking collectives (error agreement of sync_gs_error, schema  *)
(* all-gather, vertex and edge shuffle, the gather and broadcast of the    *)
(* fragment group).  One action is one stretch of a worker's code between  *)
(* two collectives or two calls to the object store.  The build is the one *)
(* with HASH_PARTITION defined: initPartitioner reads no source.           *)
(***************************************************************************)
EXTENDS Integers, Sequences, FiniteSets, TLC

\* ------------------------------------------------------------------------
\* Bounds of the model
\* ------------------------------------------------------------------------
NumWorkers == 2
MaxVFiles == 1
MaxESources == 2
\* The schemas of one all-gather, where the reconciliation is checked on its own.
MaxSchemas == 3
\* The rows of an edge table and the vertex ids in them, where the vertex tables
\* of a load without vertex files are checked.
MaxRows == 1
MaxOid == 2

Workers == 0 .. (NumWorkers - 1)

\* ------------------------------------------------------------------------
\* Source descriptors: the metadata a LocalIOAdaptor parses from the
\* "#key=value&..." suffix of a file name.  NoKey stands for an absent key.
\* ------------------------------------------------------------------------
NoKey == "<none>"
VLabels == {"v0", "v1"}
ELabels == {"e0", "e1"}

VDescs == [label : {"v0", NoKey}]
EDescs ==
  {d \in [label : ELabels, src_label : {"v0", NoKey}, dst_label : {"v0"}] :
     d.src_label = NoKey => d.label = "e0"}

\* Column types of the widening lattice, and a table column (arrow::Field).
TIMESTAMP == "timestamp[s]"
INT64 == "int64"
FLOAT64 == "double"
UTF8 == "utf8"
LatticeTypes == {TIMESTAMP, INT64, FLOAT64, UTF8}
Field(n, t) == [name |-> n, type |-> t]

\* A std::shared_ptr<arrow::Table>: null (no table), or a table with a schema
\* and, per column, the number of chunks of its arrow::ChunkedArray.  A table a
\* read yields holds one chunk per column; the table of EmptyTableBuilder has
\* no row, hence no chunk.
NullTable == [null |-> TRUE, schema |-> <<>>, chunks |-> <<>>]
TableOf(s, ch) == [null |-> FALSE, schema |-> s, chunks |-> ch]
Table(s) == TableOf(s, [i \in 1 .. Len(s) |-> 1])
EmptyTable(s) == TableOf(s, [i \in 1 .. Len(s) |-> 0])

\* A boost::leaf result: ok, or an error with a code and the place it was raised.
NoError == [code |-> "OK", msg |-> ""]
GSError(c, m) == [code |-> c, msg |-> m]
IsOk(e) == e.code = "OK"

SeqsUpTo(S, n) == UNION {[1 .. k -> S] : k \in 0 .. n}

\* The e-file lists: each entry (one edge label index) is a non-empty list of
\* sub-sources, "a;b;c" in the file name; n sub-sources in all.
RECURSIVE EFilesOfTotal(_)
EFilesOfTotal(n) ==
  IF n = 0 THEN {<<>>}
  ELSE UNION {{<<e>> \o rest : e \in [1 .. k -> EDescs], rest \in EFilesOfTotal(n - k)} :
                k \in 1 .. n}
EFileLists == UNION {EFilesOfTotal(n) : n \in 1 .. MaxESources}

\* ------------------------------------------------------------------------
\* std::map<std::string, T> as a set of <<key, value>> pairs
\* ------------------------------------------------------------------------
MapPut(m, k, v) == {p \in m : p[1] # k} \cup {<<k, v>>}
MapHas(m, k) == \E p \in m : p[1] = k
MapAt(m, k) == (CHOOSE p \in m : p[1] = k)[2]

\* std::set<std::string> iterates in lexicographic order.
LabelOrder == <<"v0", "v1", "v2">>
LabelRank(l) == CHOOSE k \in 1 .. Len(LabelOrder) : LabelOrder[k] = l
IndexInSet(S, l) == Cardinality({x \in S : LabelRank(x) < LabelRank(l)})

\* ------------------------------------------------------------------------
\* Schema reconciliation
\* ------------------------------------------------------------------------
\* A widening by one step of the lattice, whatever the other workers hold.
LoosenTypeOneRung(ts) ==
  IF ts[1] = TIMESTAMP THEN INT64
  ELSE IF ts[1] = INT64 THEN FLOAT64
  ELSE IF ts[1] = FLOAT64 THEN UTF8
  ELSE ts[1]
\* Lines 914-934: the loosened type of one column, from the types the
\* non-null schemas give it, in rank order.
LoosenType(ts) ==
  LET r0 == ts[1]
      r1 == IF r0 = TIMESTAMP THEN INT64 ELSE r0
      r2 == IF r1 = INT64 /\ (\E j \in 2 .. Len(ts) : ts[j] = FLOAT64)
            THEN FLOAT64 ELSE r1
      r3 == IF r2 = FLOAT64 /\ (\E j \in 2 .. Len(ts) : ts[j] = UTF8)
            THEN UTF8 ELSE r2
  IN r3

NonNullSchemas(tabs) ==
  LET RECURSIVE Sel(_)
      Sel(s) == IF s = <<>> THEN <<>>
                ELSE IF Head(s).null THEN Sel(Tail(s))
                ELSE <<Head(s).schema>> \o Sel(Tail(s))
  IN Sel(tabs)

\* A reconciliation to a schema without fields.
TypeLoosenNoFields(tabs) ==
  LET nn == NonNullSchemas(tabs)
      field_num == IF nn = <<>> THEN 0 ELSE Len(nn[1])
  IN [err |-> NoError,
      schema |-> [i \in 1 .. field_num |->
                    Field(nn[1][i].name,
                          LoosenType([j \in 1 .. Len(nn) |-> nn[j][i].type]))]]
\* TypeLoosen: the reconciled schema of the gathered schemas (a null entry is a
\* worker without a table), or "Every schema is empty".
TypeLoosen(tabs) ==
  LET nn == NonNullSchemas(tabs)
      field_num == IF nn = <<>> THEN 0 ELSE Len(nn[1])
  IN IF field_num = 0
     THEN [err |-> GSError("InvalidOperationError", "Every schema is empty"),
           schema |-> <<>>]
     ELSE [err |-> NoError,
           schema |-> [i \in 1 .. field_num |->
                         Field(nn[1][i].name,
                               LoosenType([j \in 1 .. Len(nn) |-> nn[j][i].type]))]]

\* An int64 or a double as the number it holds: hi * 2^e + lo, with lo below
\* 2^e when hi is not zero; a number below 2^53 has hi = 0.
Number(hi, e, lo) == [hi |-> hi, e |-> e, lo |-> lo]
Small(n) == Number(0, 0, n)
\* static_cast<double> of an int64 (line 978): the number itself when a double
\* holds it; above 2^53 the nearest number a double holds, whose low bits
\* are zero (2^53 + 1 lies between two doubles and goes to the even one, 2^53).
StaticCastDouble(v) ==
  IF v.hi # 0 /\ v.e >= 53 /\ v.lo = 1 THEN Number(v.hi, v.e, 0) ELSE v

\* An arrow::Array: its type and, per row, the bit of the validity bitmap and
\* the value in the data buffer (a null row has some value there as well).
Slot(valid, raw) == [valid |-> valid, raw |-> raw]
ArrayOf(type, slots) == [null |-> FALSE, type |-> type, slots |-> slots]
NullArray == [null |-> TRUE, type |-> "", slots |-> <<>>]

\* Lines 967-986: CastIntToDouble reads the data buffer of the array row by
\* row and appends the converted values with DoubleBuilder::AppendValues,
\* which is given no validity: every row of the result is valid.
CastIntToDouble(in, to_type) ==
  IF in.type # INT64 \/ to_type # FLOAT64
  THEN [err |-> GSError("IllegalStateError", "CHECK_OR_RAISE"), array |-> NullArray]
  ELSE [err |-> NoError,
        array |-> ArrayOf(FLOAT64,
                    [i \in 1 .. Len(in.slots) |->
                       Slot(TRUE, StaticCastDouble(in.slots[i].raw))])]
\* Lines 991-1002: CastDateToInt copies the ArrayData, validity bitmap and
\* data buffer, and sets its type.
CastDateToInt(in, to_type) ==
  IF in.type # TIMESTAMP \/ to_type # INT64
  THEN [err |-> GSError("IllegalStateError", "CHECK_OR_RAISE"), array |-> NullArray]
  ELSE [err |-> NoError, array |-> ArrayOf(INT64, in.slots)]

\* Lines 1020-1033: the cast of one chunk from type from to type to is one of
\* CastIntToDouble and CastDateToInt, or the data type error.
CastSupported(from, to) ==
  \/ from = INT64 /\ to = FLOAT64
  \/ from = TIMESTAMP /\ to = INT64

\* A cast that hands back the columns without their chunks.
CastTableDropChunks(table, schema) ==
  [err |-> NoError, table |-> EmptyTable(schema)]
\* A cast that hands back the table as it was read.
CastTableAsRead(table, schema) == [err |-> NoError, table |-> table]
\* CastTableToSchema: the table itself when its schema equals the reconciled
\* one; else, column by column, a column of another type is cast chunk by
\* chunk (the error is raised at a chunk, lines 1018-1033), a column of the
\* same type is kept; the new table has the reconciled schema.
CastTableToSchema(table, schema) ==
  IF table.schema = schema THEN [err |-> NoError, table |-> table]
  ELSE IF Len(table.schema) # Len(schema)
  THEN [err |-> GSError("IllegalStateError", "num_columns"), table |-> NullTable]
  ELSE IF \E i \in 1 .. Len(schema) :
            /\ table.schema[i].type # schema[i].type
            /\ table.chunks[i] > 0
            /\ ~CastSupported(table.schema[i].type, schema[i].type)
  THEN [err |-> GSError("DataTypeError", "Unexpected type"), table |-> NullTable]
  ELSE [err |-> NoError, table |-> TableOf(schema, table.chunks)]

\* A reconciliation that starts from the caller's own schema.
ReconciledSchemaOwnFirst(rank, tabs) == TypeLoosen(<<tabs[rank + 1]>> \o tabs)
\* The schema every worker reconciles to, from the all-gathered schemas; rank
\* is the calling worker.
ReconciledSchema(rank, tabs) == TypeLoosen(tabs)

\* A SyncSchema that leaves a worker without a table without one.
SyncSchemaNoEmptyTable(rank, table, tabs) ==
  LET n == ReconciledSchema(rank, tabs)
  IN IF ~IsOk(n.err) THEN [err |-> n.err, table |-> NullTable, schema |-> <<>>]
     ELSE IF table.null
     THEN [err |-> NoError, table |-> NullTable, schema |-> n.schema]
     ELSE LET c == CastTableToSchema(table, n.schema)
          IN [err |-> c.err, table |-> c.table, schema |-> n.schema]
\* SyncSchema after the all-gather: an empty table of the reconciled schema
\* for a worker without a table, the cast table otherwise.
SyncSchema(rank, table, tabs) ==
  LET n == ReconciledSchema(rank, tabs)
  IN IF ~IsOk(n.err) THEN [err |-> n.err, table |-> NullTable, schema |-> <<>>]
     ELSE IF table.null
     THEN [err |-> NoError, table |-> EmptyTable(n.schema), schema |-> n.schema]
     ELSE LET c == CastTableToSchema(table, n.schema)
          IN [err |-> c.err, table |-> c.table, schema |-> n.schema]


\* ------------------------------------------------------------------------
\* State
\* ------------------------------------------------------------------------
VARIABLES
  cfg,         \* the arguments of the load: vfiles_, efiles_, what a read may yield
  ldr,         \* per worker: the ArrowFragmentLoader object and where its call stands
  store,       \* the objects of the vineyard object store
  gather_buf,  \* MPI_Gather at root 0: what each worker has sent
  bcast_val,   \* MPI_Bcast from root 0: the value sent, once sent
  calc         \* a member function called on its own: its arguments and result

vars == <<cfg, ldr, store, gather_buf, bcast_val, calc>>

\* A position in the source lists: ph is "v" (loadVertexTables), "e"
\* (loadEdgeTables), "scan" and "ev" (the two passes of loadEVTablesFromEFiles);
\* i is the label id, j the sub-source of an e-file entry.
Cursor(ph, i, j) == [ph |-> ph, i |-> i, j |-> j]
NoCursor == Cursor("", 0, 0)

\* vineyard::ObjectID: one object per kind and creating worker.
ObjId(kind, w) == [kind |-> kind, owner |-> w]
NoObject == [kind |-> "none", owner |-> 0]
\* client.instance_id() of worker w
InstanceId(w) == 100 + w
\* grape::CommSpec: one fragment per worker.
Fnum == NumWorkers
FragToWorker(fid) == (fid + cfg.shift) % NumWorkers
WorkerToFrag(w) == CHOOSE fid \in 0 .. (Fnum - 1) : FragToWorker(fid) = w

\* No member function is called on its own during a load.
NoCalc == [fn |-> "", step |-> 0, arg |-> <<>>, out |-> <<>>, again |-> <<>>]

NoSend == [kind |-> "", err |-> NoError, tab |-> NullTable]

InitLoader ==
  [pc |-> "start", waiting |-> FALSE, send |-> NoSend, recv |-> <<>>,
   cur |-> NoCursor, table |-> NullTable,
   vertex_label_to_index_ |-> {}, edge_label_to_index_ |-> {},
   edge_vertex_label_ |-> {},
   vertex_label_num_ |-> Len(cfg.vfiles), edge_label_num_ |-> Len(cfg.efiles),
   v_tables |-> <<>>, e_tables |-> <<>>,
   raised |-> [err |-> NoError, after |-> {}, at |-> NoCursor],
   took_part |-> {},
   rd |-> [failed |-> FALSE, cur |-> NoCursor],
   synced |-> NoCursor,
   norm |-> [cur |-> NoCursor, schema |-> <<>>],
   lf |-> [st |-> "none", id |-> NoObject, err |-> NoError],
   ret |-> [st |-> "none", id |-> NoObject, err |-> NoError],
   io |-> <<>>,
   stages |-> <<>>]

\* The schemas a read may infer for a source: one column "p" of type int64 in
\* the runs that vary the file lists; any lattice type, or another header, in
\* the runs that vary the tables.
PlainSchemas == {<<Field("p", INT64)>>}
LatticeSchemas ==
  {<<Field("p", t)>> : t \in LatticeTypes} \cup {<<Field("q", INT64)>>}

Init ==
  /\ cfg \in [vfiles : SeqsUpTo(VDescs, MaxVFiles), efiles : EFileLists,
              schemas : {PlainSchemas}, nulls : {FALSE}, shift : {0}]
  /\ ldr = [w \in Workers |-> InitLoader]
  /\ store = {}
  /\ gather_buf = [w \in Workers |-> [sent |-> FALSE, instance_id |-> 0, frag_id |-> NoObject]]
  /\ bcast_val = NoObject
  /\ calc = NoCalc

\* One vertex file and one e-file, or one e-file alone; the slices of the
\* workers differ in schema and may be empty; any placement of the fragments.
InitData ==
  /\ cfg \in [vfiles : {<<>>, <<[label |-> "v0"]>>},
              efiles : {<<<<[label |-> "e0", src_label |-> "v0", dst_label |-> "v0"]>>>>},
              schemas : {LatticeSchemas}, nulls : {TRUE}, shift : Workers]
  /\ ldr = [w \in Workers |-> InitLoader]
  /\ store = {}
  /\ gather_buf = [w \in Workers |-> [sent |-> FALSE, instance_id |-> 0, frag_id |-> NoObject]]
  /\ bcast_val = NoObject
  /\ calc = NoCalc

\* ------------------------------------------------------------------------
\* Collectives
\* ------------------------------------------------------------------------
\* A worker enters a blocking collective of the given kind with its
\* contribution, and continues at pc once the collective has completed.
Arrive(s, kind, err, tab, pc) ==
  [s EXCEPT !.waiting = TRUE, !.pc = pc,
            !.send = [kind |-> kind, err |-> err, tab |-> tab],
            !.took_part = @ \cup {kind}]

\* all_gather_error: the error of the lowest failing rank, if any.
AgreedError(recv) ==
  IF \E r \in 1 .. Len(recv) : ~IsOk(recv[r].err)
  THEN recv[CHOOSE r \in 1 .. Len(recv) :
              /\ ~IsOk(recv[r].err)
              /\ \A q \in 1 .. (r - 1) : IsOk(recv[q].err)].err
  ELSE NoError

\* sync_gs_error(comm_spec, f): f has run with result err; the workers agree on
\* success or failure before any of them goes on.
SyncGsError(s, err, pc) == Arrive(s, "agree", err, NullTable, pc)

\* The collective completes once every worker of the group has entered it.
Complete ==
  /\ \A w \in Workers : ldr[w].waiting
  /\ \A w \in Workers : ldr[w].send.kind = ldr[0].send.kind
  /\ ldr' = [w \in Workers |->
               [ldr[w] EXCEPT !.waiting = FALSE,
                              !.recv = [r \in 1 .. NumWorkers |-> ldr[r - 1].send]]]
  /\ UNCHANGED <<calc, cfg, store, gather_buf, bcast_val>>

\* ------------------------------------------------------------------------
\* Table acquisition
\* ------------------------------------------------------------------------
\* What read_procedure (SetPartialRead, Open, ReadTable) may yield on a worker's
\* slice: a failure, no table (an empty slice), or a table.
ReadOutcomes ==
  {[fail |-> TRUE, table |-> NullTable]}
    \cup {[fail |-> FALSE, table |-> NullTable] : x \in {y \in {1} : cfg.nulls}}
    \cup {[fail |-> FALSE, table |-> Table(sc)] : sc \in cfg.schemas}

\* The first error a worker raises itself, with the collectives it had taken part in.
NoteRaised(s, err, at) ==
  IF IsOk(s.raised.err) /\ ~IsOk(err)
  THEN [s EXCEPT !.raised = [err |-> err, after |-> s.took_part, at |-> at]]
  ELSE s

\* Lines 441-445, 501-505, 590-594, 628-632: a LocalIOAdaptor is created for the
\* source at cursor c and held by a unique_ptr whose deleter is io_deleter_.
OpenAdaptor(io, c) == Append(io, [cur |-> c, held |-> TRUE, closes |-> 0])
\* Lines 1062-1066: io_deleter_ closes the adaptor and deletes it.
IoDeleter(a) == [a EXCEPT !.held = FALSE, !.closes = @ + 1]
\* The end of the scope of the unique_ptr, by the end of the loop body, a
\* return or an exception: the deleter runs on the adaptor it holds.
ScopeExit(io) == [k \in 1 .. Len(io) |-> IF io[k].held THEN IoDeleter(io[k]) ELSE io[k]]

\* A return that leaves the adaptor of the source to the end of the loop body.
ReturnFromLoadNoClose(s, err) == SyncGsError(s, err, "outer_agreed")
\* loadVertexTables / loadEdgeTables / loadEVTablesFromEFiles return (err or
\* tables) into the sync_gs_error of initBasicLoader.
ReturnFromLoad(s, err) ==
  SyncGsError([s EXCEPT !.io = ScopeExit(@)], err, "outer_agreed")

\* RETURN_GS_ERROR inside a load procedure
Raise(s, err, at) == ReturnFromLoad(NoteRaised(s, err, at), err)

\* read_procedure called without sync_gs_error.
ReadSourceNoSync(s, c, out) ==
  LET s1 == [s EXCEPT !.cur = c, !.table = out.table,
                      !.rd = [failed |-> out.fail, cur |-> c],
                      !.io = OpenAdaptor(ScopeExit(@), c)]
  IN IF out.fail
     THEN Raise(s1, GSError("IOError", "read failed"), c)
     ELSE Arrive([s1 EXCEPT !.synced = c], "schema", NoError, out.table,
                 "schema_gathered")
\* Lines 440-455, 499-514, 626-649: the loop body of the source before is left,
\* the adaptor of the source at cursor c is created, read_procedure runs under
\* sync_gs_error.
ReadSource(s, c, out) ==
  LET err == IF out.fail THEN GSError("IOError", "read failed") ELSE NoError
      s1 == [s EXCEPT !.cur = c, !.table = out.table,
                      !.rd = [failed |-> out.fail, cur |-> c],
                      !.io = OpenAdaptor(ScopeExit(@), c)]
  IN SyncGsError(NoteRaised(s1, err, c), err, "read_agreed")

\* Lines 455-463: BOOST_LEAF_AUTO(table, ...) and the entry into SyncSchema's
\* GlobalAllGatherv.
EnterSyncSchema(s) ==
  IF ~IsOk(AgreedError(s.recv))
  THEN ReturnFromLoad(s, AgreedError(s.recv))
  ELSE Arrive([s EXCEPT !.synced = s.cur], "schema", NoError, s.table,
              "schema_gathered")

\* Lines 954-963 under sync_gs_error: TypeLoosen and the cast, then agreement.
FinishSyncSchema(rank, s) ==
  LET tabs == [r \in 1 .. Len(s.recv) |-> s.recv[r].tab]
      r == SyncSchema(rank, s.table, tabs)
      s1 == [s EXCEPT !.table = r.table,
                      !.norm = [cur |-> s.cur, schema |-> r.schema]]
  IN SyncGsError(NoteRaised(s1, r.err, s.cur), r.err, "schema_agreed")


\* The sub-sources of the e-files in the order the loops visit them.
EFileCursors(ph) ==
  LET RECURSIVE Flat(_)
      Flat(i) == IF i >= Len(cfg.efiles) THEN <<>>
                 ELSE [j \in 1 .. Len(cfg.efiles[i + 1]) |-> Cursor(ph, i, j - 1)]
                        \o Flat(i + 1)
  IN Flat(0)
EDescAt(c) == cfg.efiles[c.i + 1][c.j + 1]

\* Lines 562-563, 703: tables[label_id].emplace_back(table)
AddETable(e_tables, i, rec) ==
  IF Len(e_tables) < i + 1 THEN Append(e_tables, <<rec>>)
  ELSE [e_tables EXCEPT ![i + 1] = Append(@, rec)]

\* Lines 729-748: the synthetic one-column vertex tables of the vertex-less mode.
InducedVTables(s) ==
  [k \in 1 .. s.vertex_label_num_ |->
     LET name == CHOOSE n \in VLabels : <<n, k - 1>> \in s.vertex_label_to_index_
     IN [label |-> name, schema |-> <<Field(name, INT64)>>]]

\* The loops of loadEdgeTables and loadEVTablesFromEFiles: on to the next
\* sub-source, or return the tables.
NextESource(s, out) ==
  LET c == s.cur
  IN IF c.j + 1 < Len(cfg.efiles[c.i + 1])
     THEN ReadSource(s, Cursor(c.ph, c.i, c.j + 1), out)
     ELSE IF c.i + 1 < Len(cfg.efiles)
     THEN ReadSource(s, Cursor(c.ph, c.i + 1, 0), out)
     ELSE IF c.ph = "ev"
     THEN ReturnFromLoad([s EXCEPT !.v_tables = InducedVTables(s)], NoError)
     ELSE ReturnFromLoad(s, NoError)

\* A source without label is given the default label "_" (the comment of line 473).
VertexMetaDefaultLabel(s, out) ==
  LET d == cfg.vfiles[s.cur.i + 1]
      l == IF d.label = NoKey THEN "_" ELSE d.label
      s1 == [s EXCEPT
               !.v_tables = Append(@, [label |-> l, schema |-> s.table.schema]),
               !.vertex_label_to_index_ = MapPut(@, l, s.cur.i)]
  IN IF s.cur.i + 1 < Len(cfg.vfiles)
     THEN ReadSource(s1, Cursor("v", s.cur.i + 1, 0), out)
     ELSE ReturnFromLoad(s1, NoError)
\* Lines 465-485 of loadVertexTables: the label of the source, the table and
\* the label index; then the next label.
VertexMeta(s, out) ==
  LET d == cfg.vfiles[s.cur.i + 1]
  IN IF d.label = NoKey
     THEN Raise(s, GSError("IOError", "vertex files should contain label name"), s.cur)
     ELSE LET s1 == [s EXCEPT
                       !.v_tables = Append(@, [label |-> d.label,
                                               schema |-> s.table.schema]),
                       !.vertex_label_to_index_ = MapPut(@, d.label, s.cur.i)]
          IN IF s.cur.i + 1 < Len(cfg.vfiles)
             THEN ReadSource(s1, Cursor("v", s.cur.i + 1, 0), out)
             ELSE ReturnFromLoad(s1, NoError)

\* An exception of loadEdgeTables that leaves the call.
RethrowException(s, what) ==
  [s EXCEPT !.pc = "done",
            !.ret = [st |-> "fatal", id |-> NoObject, err |-> GSError("", what)]]
\* Lines 568-570: an exception thrown inside loadEdgeTables, the failed
\* vertex_label_to_index_.at of lines 549 and 560, is caught and returned as
\* the I/O error of its message.
CatchException(s, what) == Raise(s, GSError("IOError", what), s.cur)

\* Lines 523-566 of loadEdgeTables; a failed vertex_label_to_index_.at() is the
\* std::out_of_range caught at line 569.
EdgeMeta(s, out) ==
  LET d == EDescAt(s.cur)
      vmap == s.vertex_label_to_index_
  IN IF d.label = NoKey
     THEN Raise(s, GSError("IOError", "edge files should contain label name"), s.cur)
     ELSE IF d.src_label = NoKey
     THEN Raise(s, GSError("IOError", "edge files should contain src label name"), s.cur)
     ELSE IF ~MapHas(vmap, d.src_label)
     THEN CatchException(s, "map::at")
     ELSE IF d.dst_label = NoKey
     THEN Raise(s, GSError("IOError", "edge files should contain dst label name"), s.cur)
     ELSE IF ~MapHas(vmap, d.dst_label)
     THEN CatchException(s, "map::at")
     ELSE NextESource(
            [s EXCEPT
               !.e_tables = AddETable(@, s.cur.i,
                               [label |-> d.label, src |-> MapAt(vmap, d.src_label),
                                dst |-> MapAt(vmap, d.dst_label),
                                schema |-> s.table.schema]),
               !.edge_vertex_label_ = @ \cup {<<d.label, d.src_label, d.dst_label>>},
               !.edge_label_to_index_ = MapPut(@, d.label, s.cur.i)],
            out)

\* Lines 659-721 of loadEVTablesFromEFiles.
EVMeta(s, out) ==
  LET d == EDescAt(s.cur)
      vmap == s.vertex_label_to_index_
      emap == s.edge_label_to_index_
  IN IF d.label = NoKey
     THEN Raise(s, GSError("IOError", "edge files should contain label name"), s.cur)
     ELSE IF d.src_label = NoKey
     THEN Raise(s, GSError("IOError", "edge files should contain src label name"), s.cur)
     ELSE IF ~MapHas(vmap, d.src_label)
     THEN Raise(s, GSError("IOError", "map::at"), s.cur)
     ELSE IF d.dst_label = NoKey
     THEN Raise(s, GSError("IOError", "edge files should contain dst label name"), s.cur)
     ELSE IF ~MapHas(vmap, d.dst_label)
     THEN Raise(s, GSError("IOError", "map::at"), s.cur)
     ELSE LET s1 == [s EXCEPT
                       !.e_tables = AddETable(@, s.cur.i,
                               [label |-> d.label, src |-> MapAt(vmap, d.src_label),
                                dst |-> MapAt(vmap, d.dst_label),
                                schema |-> s.table.schema]),
                       !.edge_vertex_label_ =
                           @ \cup {<<d.label, d.src_label, d.dst_label>>}]
          IN IF ~MapHas(emap, d.label)
             THEN NextESource([s1 EXCEPT !.edge_label_to_index_ =
                                           MapPut(@, d.label, s.cur.i)], out)
             ELSE IF MapAt(emap, d.label) # s.cur.i
             THEN Raise(s1, GSError("InvalidValueError",
                                    "Edge label is not consistent"), s.cur)
             ELSE NextESource(s1, out)

\* The sub-sources of an e-file list in the order both passes visit them.
FlatSubs(efiles) ==
  LET RECURSIVE Flat(_)
      Flat(i) == IF i > Len(efiles) THEN <<>> ELSE efiles[i] \o Flat(i + 1)
  IN Flat(1)

\* Lines 585-609: the src and dst label names in the order the first pass
\* inserts them into vertex_label_name_set.
DiscoveredNames(efiles) ==
  LET subs == FlatSubs(efiles)
      RECURSIVE Names(_)
      Names(k) == IF k > Len(subs) THEN <<>>
                  ELSE <<subs[k].src_label, subs[k].dst_label>> \o Names(k + 1)
  IN Names(1)

\* The names numbered in the order of their first insertion.
NumberLabelsByDiscovery(seq) ==
  LET names == {seq[k] : k \in 1 .. Len(seq)}
      First(n) == CHOOSE k \in 1 .. Len(seq) :
                    seq[k] = n /\ \A q \in 1 .. (k - 1) : seq[q] # n
  IN [num |-> Cardinality(names),
      map |-> {<<n, Cardinality({x \in names : First(x) < First(n)})>> : n \in names}]
\* Lines 611-619: vertex_label_num_ and vertex_label_to_index_ from the name
\* set, iterated in the order of std::set<std::string>.
NumberLabels(seq) ==
  LET names == {seq[k] : k \in 1 .. Len(seq)}
  IN [num |-> Cardinality(names),
      map |-> {<<n, IndexInSet(names, n)>> : n \in names}]

\* OidSet<oid_t>: BatchInsert adds the values of a column to the set;
\* ToArrowArray lists the members of the set, each once.
BatchInsert(set, column) == set \cup {column[k] : k \in 1 .. Len(column)}
RECURSIVE ToArrowArray(_)
ToArrowArray(set) ==
  IF set = {} THEN <<>>
  ELSE LET m == CHOOSE x \in set : \A y \in set : x <= y
       IN <<m>> \o ToArrowArray(set \ {m})

\* Both columns of an edge table go to the set of the src label.
InsertEndpointsOneLabel(oids, src_label_id, dst_label_id, rows) ==
  LET src == [k \in 1 .. Len(rows) |-> rows[k][1]]
      dst == [k \in 1 .. Len(rows) |-> rows[k][2]]
  IN [oids EXCEPT ![src_label_id + 1] = BatchInsert(BatchInsert(@, src), dst)]
\* Lines 717-721: column src_column (0) of the edge table into the set of the
\* src label id, column dst_column (1) into the set of the dst label id.
InsertEndpoints(oids, src_label_id, dst_label_id, rows) ==
  LET src == [k \in 1 .. Len(rows) |-> rows[k][1]]
      dst == [k \in 1 .. Len(rows) |-> rows[k][2]]
      o1 == [oids EXCEPT ![src_label_id + 1] = BatchInsert(@, src)]
  IN [o1 EXCEPT ![dst_label_id + 1] = BatchInsert(@, dst)]

\* Lines 729-748: one table per vertex label id, of one column named after the
\* label, holding the members of the set of that id.
OidVTables(map, num, oids) ==
  [k \in 1 .. num |->
     [label |-> (CHOOSE p \in map : p[2] = k - 1)[1], label_index |-> k - 1,
      oids |-> ToArrowArray(oids[k])]]

\* Lines 585-609 of loadEVTablesFromEFiles: the first sub-source whose file
\* name lacks src_label or dst_label, if there is one.
ScanMissing ==
  LET cs == EFileCursors("scan")
      bad == {k \in 1 .. Len(cs) : EDescAt(cs[k]).src_label = NoKey
                                   \/ EDescAt(cs[k]).dst_label = NoKey}
  IN IF bad = {} THEN NoCursor
     ELSE cs[CHOOSE k \in bad : \A q \in bad : k <= q]

\* Lines 585-609: the first loop creates an adaptor for every sub-source for its
\* metadata alone; the loop body is left after each, and by the return at the
\* sub-source last that lacks a label.
ScanAdaptors(io, cs, last) ==
  LET RECURSIVE Scan(_, _)
      Scan(acc, k) ==
        IF k > Len(cs) THEN acc
        ELSE IF cs[k] = last THEN OpenAdaptor(acc, cs[k])
        ELSE Scan(ScopeExit(OpenAdaptor(acc, cs[k])), k + 1)
  IN Scan(io, 1)

\* Lines 580-620 of loadEVTablesFromEFiles: the vertex labels are the src and
\* dst labels of the e-files, numbered in the order of the name set; then the
\* first read.
LoadEVStart(s, out) ==
  IF ScanMissing # NoCursor
  THEN Raise([s EXCEPT !.io = ScanAdaptors(@, EFileCursors("scan"), ScanMissing)],
             GSError("IOError", "edge files should contain label name"),
             ScanMissing)
  ELSE LET numbered == NumberLabels(DiscoveredNames(cfg.efiles))
           s1 == [s EXCEPT !.vertex_label_num_ = numbered.num,
                           !.vertex_label_to_index_ = numbered.map,
                           !.io = ScanAdaptors(@, EFileCursors("scan"), NoCursor)]
       IN ReadSource(s1, Cursor("ev", 0, 0), out)

\* The worker enters a stage of LoadFragment.
Stage(s, name) == [s EXCEPT !.stages = Append(@, name)]

\* Lines 203-206: partitioner_.Init(comm_spec_.fnum()).
InitPartitioner(s) == Stage(s, "partitioner")

\* initBasicLoader: vertex-less when vfiles_ is empty.
InitBasicLoader(s, out) ==
  IF cfg.vfiles = <<>> THEN LoadEVStart(Stage(s, "acquire"), out)
  ELSE ReadSource(Stage(s, "acquire"), Cursor("v", 0, 0), out)

\* The load returns an error to its caller.
FailLoad(s, err) ==
  [s EXCEPT !.pc = "done",
            !.lf = IF @.st = "none" THEN [st |-> "error", id |-> NoObject, err |-> err]
                   ELSE @,
            !.ret = [st |-> "error", id |-> NoObject, err |-> err]]

\* The call is left by a raw exception or the process aborts.
Fatal(s, what) ==
  [s EXCEPT !.pc = "done",
            !.ret = [st |-> "fatal", id |-> NoObject, err |-> GSError("", what)]]

Ready(w, pc) == ldr[w].pc = pc /\ ~ldr[w].waiting

StartLoad(w) ==
  /\ Ready(w, "start")
  /\ \E out \in ReadOutcomes :
       ldr' = [ldr EXCEPT ![w] = InitBasicLoader(InitPartitioner(ldr[w]), out)]
  /\ UNCHANGED <<calc, cfg, store, gather_buf, bcast_val>>

AfterReadAgreed(w) ==
  /\ Ready(w, "read_agreed")
  /\ ldr' = [ldr EXCEPT ![w] = EnterSyncSchema(ldr[w])]
  /\ UNCHANGED <<calc, cfg, store, gather_buf, bcast_val>>

AfterSchemaGathered(w) ==
  /\ Ready(w, "schema_gathered")
  /\ ldr' = [ldr EXCEPT ![w] = FinishSyncSchema(w, ldr[w])]
  /\ UNCHANGED <<calc, cfg, store, gather_buf, bcast_val>>

\* BOOST_LEAF_AUTO(normalized_table, ...), then the metadata of the source.
SourceMeta(s, out) ==
  IF ~IsOk(AgreedError(s.recv)) THEN ReturnFromLoad(s, AgreedError(s.recv))
  ELSE IF s.cur.ph = "v" THEN VertexMeta(s, out)
  ELSE IF s.cur.ph = "e" THEN EdgeMeta(s, out)
  ELSE EVMeta(s, out)

AfterSchemaAgreed(w) ==
  /\ Ready(w, "schema_agreed")
  /\ \E out \in ReadOutcomes :
       ldr' = [ldr EXCEPT ![w] = SourceMeta(ldr[w], out)]
  /\ UNCHANGED <<calc, cfg, store, gather_buf, bcast_val>>

\* Lines 254-276 and 280-282: the result of a load procedure; then the e-files,
\* or ShuffleVertexTables.
AfterLoadProcedure(s, out) ==
  IF ~IsOk(AgreedError(s.recv)) THEN FailLoad(s, AgreedError(s.recv))
  ELSE IF s.cur.ph = "v" THEN ReadSource(s, Cursor("e", 0, 0), out)
  ELSE Arrive(Stage(s, "vshuffle"), "vshuffle", NoError, NullTable, "v_shuffled")

AfterOuterAgreed(w) ==
  /\ Ready(w, "outer_agreed")
  /\ \E out \in ReadOutcomes :
       ldr' = [ldr EXCEPT ![w] = AfterLoadProcedure(ldr[w], out)]
  /\ UNCHANGED <<calc, cfg, store, gather_buf, bcast_val>>


\* ------------------------------------------------------------------------
\* shuffleAndBuild
\* ------------------------------------------------------------------------
\* An object of the store: sealed when created, persisted by Persist.  fid is
\* the fragment id of a fragment; entries and the counts are those of a group.
Object(id, fid, entries, vnum, enum) ==
  [id |-> id, persisted |-> FALSE, fid |-> fid, entries |-> entries,
   vertex_label_num |-> vnum, edge_label_num |-> enum, schema |-> <<>>]
Persisted(st, id) ==
  {IF o.id = id THEN [o EXCEPT !.persisted = TRUE] ELSE o : o \in st}

\* Lines 283-296: the vertex map is built from the oid lists and sealed; then
\* ShuffleEdgeTables resolves every edge endpoint through the mapper, whose
\* CHECK ends the process when a lookup fails.
\* The edge shuffle entered with the vertex map not built.
ShuffleEdgesUnsealed(w, s, shuffled, found) ==
  IF ~shuffled
  THEN [ldr |-> FailLoad(s, GSError("ArrowError", "ShuffleVertexTables")), add |-> {}]
  ELSE [ldr |-> Arrive(Stage(s, "eshuffle"), "eshuffle", NoError, NullTable, "e_shuffled"),
        add |-> {}]
SealVertexMap(w, s, shuffled, found) ==
  IF ~shuffled
  THEN [ldr |-> FailLoad(s, GSError("ArrowError", "ShuffleVertexTables")), add |-> {}]
  ELSE LET s1 == Stage(Stage(s, "vm_seal"), "eshuffle")
       IN [ldr |-> IF found THEN Arrive(s1, "eshuffle", NoError, NullTable, "e_shuffled")
                   ELSE Fatal(s1, "CHECK(vm_ptr->GetGid(fid, label, oid, gid))"),
           add |-> {Object(ObjId("vm", w), 0, {}, 0, 0)}]

\* With vertex files an edge may name an endpoint that no vertex file holds;
\* without them every endpoint was inserted into the oid sets.
LookupOutcomes == IF cfg.vfiles = <<>> THEN {TRUE} ELSE BOOLEAN

AfterVertexShuffle(w) ==
  /\ Ready(w, "v_shuffled")
  /\ \E shuffled \in BOOLEAN, found \in LookupOutcomes :
       LET r == SealVertexMap(w, ldr[w], shuffled, found)
       IN /\ ldr' = [ldr EXCEPT ![w] = r.ldr]
          /\ store' = store \cup r.add
  /\ UNCHANGED <<calc, cfg, gather_buf, bcast_val>>

\* The label names in the order of a std::map over them.
KeyOrder == <<"e0", "e1", "v0", "v1", "v2">>
KeyRank(l) == CHOOSE k \in 1 .. Len(KeyOrder) : KeyOrder[k] = l
\* A check of the label map that accepts two labels of one index.
LabelMapErrorIndexOnly(m, num, above, twice) ==
  IF \E p \in m : p[2] > num THEN GSError("IOError", above) ELSE NoError
\* Lines 305-317 and 339-351: the error of the first entry of the label map,
\* in the order of the names, whose index is above the label count or is the
\* index of an entry before it.
LabelMapError(m, num, above, twice) ==
  LET Twice(p) == \E q \in m : q[2] = p[2] /\ KeyRank(q[1]) < KeyRank(p[1])
      bad == {p \in m : p[2] > num \/ Twice(p)}
      first == CHOOSE p \in bad : \A q \in bad : KeyRank(p[1]) <= KeyRank(q[1])
  IN IF bad = {} THEN NoError
     ELSE IF first[2] > num THEN GSError("IOError", above)
     ELSE GSError("IOError", twice)
VertexLabelMapError(s) ==
  LabelMapError(s.vertex_label_to_index_, s.vertex_label_num_,
                "Failed to map vertex label to index",
                "Multiple vertex labels are mapped to one index.")
EdgeLabelMapError(s) ==
  LabelMapError(s.edge_label_to_index_, s.edge_label_num_,
                "Failed to map edge label to index",
                "Multiple edge labels are mapped to one index.")

\* Lines 352-360: edge_vertex_label_.at(edge_label_list[e_label]) for every edge
\* label index; an index without a label has the empty name, which is no key.
EdgeRelationsFound(s) ==
  \A e_label \in 0 .. (s.edge_label_num_ - 1) :
     \E p \in s.edge_label_to_index_ :
        p[2] = e_label /\ (\E t \in s.edge_vertex_label_ : t[1] = p[1])

\* Lines 303-317 and 337-351: the label of every label index; an index
\* without a label has the empty name.
LabelList(m, num) ==
  [k \in 1 .. num |->
     IF \E p \in m : p[2] = k - 1 THEN (CHOOSE p \in m : p[2] = k - 1)[1] ELSE ""]
\* kvs["primary_key"] of line 326: the metadata of a vertex table is made at
\* lines 465-482 and 739-746 of "type", the id column, the keys of the source
\* and "label"; a key that is not there reads as the empty string.
PrimaryKey(table) == ""
\* The schema of local_e_tables.at(e_label): that of the sub-tables of the label.
LocalETableSchema(subs) == IF subs = <<>> THEN <<>> ELSE subs[1].schema
\* An edge entry that lists every column of the edge table.
EdgePropertiesAll(schema) == schema
\* Lines 362-366: the columns of an edge table after src and dst.
EdgeProperties(schema) == SubSeq(schema, 3, Len(schema))
\* Lines 298-370: the PropertyGraphSchema of the fragment.
GraphSchema(s) ==
  [fnum |-> Fnum,
   vertex_entries |->
     [k \in 1 .. s.vertex_label_num_ |->
        [label |-> LabelList(s.vertex_label_to_index_, s.vertex_label_num_)[k],
         type |-> "VERTEX",
         primary_keys |-> <<PrimaryKey(s.v_tables[k])>>,
         props |-> s.v_tables[k].schema]],
   edge_entries |->
     [k \in 1 .. s.edge_label_num_ |->
        LET name == LabelList(s.edge_label_to_index_, s.edge_label_num_)[k]
        IN [label |-> name,
            type |-> "EDGE",
            relations |-> {<<r[2], r[3]>> : r \in {u \in s.edge_vertex_label_ : u[1] = name}},
            props |-> EdgeProperties(LocalETableSchema(s.e_tables[k]))]]]

\* Lines 295-379: the result of ShuffleEdgeTables, the PropertyGraphSchema,
\* frag_builder.Init and frag_builder.Seal.
BuildFragment(w, s, shuffled, inited) ==
  IF ~shuffled
  THEN [ldr |-> FailLoad(s, GSError("ArrowError", "ShuffleEdgeTables")), add |-> {}]
  ELSE IF ~IsOk(VertexLabelMapError(s))
  THEN [ldr |-> FailLoad(s, VertexLabelMapError(s)), add |-> {}]
  ELSE IF ~IsOk(EdgeLabelMapError(s))
  THEN [ldr |-> FailLoad(s, EdgeLabelMapError(s)), add |-> {}]
  ELSE IF ~EdgeRelationsFound(s)
  THEN [ldr |-> Fatal(s, "std::out_of_range edge_vertex_label_.at"), add |-> {}]
  ELSE IF ~inited
  THEN [ldr |-> FailLoad(Stage(s, "build"), GSError("ArrowError", "frag_builder.Init")),
        add |-> {}]
  ELSE [ldr |-> [Stage(Stage(s, "build"), "seal") EXCEPT !.pc = "frag_sealed"],
        add |-> {[Object(ObjId("frag", w), WorkerToFrag(w), {}, 0, 0)
                    EXCEPT !.schema = GraphSchema(s)]}]

AfterEdgeShuffle(w) ==
  /\ Ready(w, "e_shuffled")
  /\ \E shuffled \in BOOLEAN, inited \in BOOLEAN :
       LET r == BuildFragment(w, ldr[w], shuffled, inited)
       IN /\ ldr' = [ldr EXCEPT ![w] = r.ldr]
          /\ store' = store \cup r.add
  /\ UNCHANGED <<calc, cfg, gather_buf, bcast_val>>

PersistFragmentSkipped(w, s, st, ok) ==
  [ldr |-> [s EXCEPT !.pc = "construct_group",
                     !.lf = [st |-> "ok", id |-> ObjId("frag", w), err |-> NoError]],
   store |-> st]
\* Lines 380-381 and 195: VINEYARD_CHECK_OK(client_.Persist(frag->id())), and
\* LoadFragment returns the id of the fragment.
PersistFragment(w, s, st, ok) ==
  IF ok
  THEN [ldr |-> [Stage(s, "persist") EXCEPT !.pc = "construct_group",
                          !.lf = [st |-> "ok", id |-> ObjId("frag", w),
                                  err |-> NoError]],
        store |-> Persisted(st, ObjId("frag", w))]
  ELSE [ldr |-> Fatal(s, "VINEYARD_CHECK_OK(client_.Persist(frag->id()))"),
        store |-> st]

AfterFragmentSealed(w) ==
  /\ Ready(w, "frag_sealed")
  /\ \E ok \in BOOLEAN :
       LET r == PersistFragment(w, ldr[w], store, ok)
       IN /\ ldr' = [ldr EXCEPT ![w] = r.ldr]
          /\ store' = r.store
  /\ UNCHANGED <<calc, cfg, gather_buf, bcast_val>>

\* ------------------------------------------------------------------------
\* The rows through shuffleAndBuild
\* ------------------------------------------------------------------------
\* HashPartitioner<oid_t>: the partition of a vertex id.
Assign(oid) == oid % Fnum
Fids == 0 .. (Fnum - 1)

\* The tables of the workers for one label, one after the other in rank order.
RowsOfAll(tabs, l) ==
  LET RECURSIVE Cat(_)
      Cat(w) == IF w >= NumWorkers THEN <<>> ELSE tabs[w][l] \o Cat(w + 1)
  IN Cat(0)
\* Every value once, at the place of its first occurrence.
RECURSIVE Distinct(_)
Distinct(seq) ==
  IF seq = <<>> THEN <<>>
  ELSE LET front == Distinct(SubSeq(seq, 1, Len(seq) - 1))
           last == seq[Len(seq)]
       IN IF \E i \in 1 .. Len(front) : front[i] = last THEN front
          ELSE Append(front, last)

\* BasicArrowFragmentLoader::ShuffleVertexTables(deduplicate_oid): every vertex
\* row goes to the partition of its id; with the flag an id that several
\* workers sent is kept once.  The result is the table of every partition per
\* label; GetOidLists() is its id column.
ShuffleVertexTables(tabs, label_num, deduplicate_oid) ==
  [fid \in Fids |->
     [l \in 1 .. label_num |->
        LET mine == SelectSeq(RowsOfAll(tabs, l), LAMBDA o : Assign(o) = fid)
        IN IF deduplicate_oid THEN Distinct(mine) ELSE mine]]

\* The vertex tables are never deduplicated.
ShuffleVerticesKeepAll(vfiles_empty, tabs, label_num) ==
  ShuffleVertexTables(tabs, label_num, FALSE)
\* Lines 280-283: ShuffleVertexTables(vfiles_.empty()), then GetOidLists().
ShuffleVertices(vfiles_empty, tabs, label_num) ==
  ShuffleVertexTables(tabs, label_num, vfiles_empty)

\* A GID: the partition, the label and the offset of a vertex in fields of
\* fixed width.
LabelSpan == Len(LabelOrder)
OffsetSpan == MaxOid + 1
Gid(fid, label, offset) == (fid * LabelSpan + label) * OffsetSpan + offset
UnsetGid == 0 - 1

\* BasicArrowVertexMapBuilder(client, fnum, label_num, oid_lists) and Seal: the
\* vertex of (partition, label) at place i of its oid list gets offset i; the
\* sealed map holds the entries of every partition.
VertexMapOf(fnum, label_num, oid_lists) ==
  {[fid |-> fid, label |-> l - 1, oid |-> oid_lists[fid][l][i],
    gid |-> Gid(fid, l - 1, i - 1)] :
     <<fid, l, i>> \in {x \in (0 .. (fnum - 1)) \X (1 .. label_num) \X (1 .. MaxOid * NumWorkers) :
                          /\ x[3] <= Len(oid_lists[x[1]][x[2]])
                          /\ \A q \in 1 .. (x[3] - 1) :
                               oid_lists[x[1]][x[2]][q] # oid_lists[x[1]][x[2]][x[3]]}}

\* The labels are left out of the GIDs.
BuildVertexMapNoLabel(label_num, oid_lists) ==
  {[e EXCEPT !.gid = Gid(e.fid, 0, e.gid % OffsetSpan)] :
     e \in VertexMapOf(Fnum, label_num, oid_lists)}
\* Lines 285-289: the builder over comm_spec_.fnum(), vertex_label_num_ and the
\* oid lists; the sealed map is fetched from the store.
BuildVertexMap(label_num, oid_lists) == VertexMapOf(Fnum, label_num, oid_lists)

\* ArrowVertexMap::GetGid(fid, label, oid, gid)
GetGid(vm, fid, label, oid) ==
  IF \E e \in vm : e.fid = fid /\ e.label = label /\ e.oid = oid
  THEN [found |-> TRUE,
        gid |-> (CHOOSE e \in vm : e.fid = fid /\ e.label = label /\ e.oid = oid).gid]
  ELSE [found |-> FALSE, gid |-> UnsetGid]

\* The resolver hands the outcome of the lookup to the shuffle.
MapperReturnsFound(vm, fid, label, oid) ==
  LET r == GetGid(vm, fid, label, oid)
  IN [aborted |-> FALSE, ret |-> r.found, gid |-> r.gid]
\* Lines 290-294, the resolver given to ShuffleEdgeTables:
\* CHECK(vm_ptr->GetGid(fid, label, oid, gid)); return true.  A failed CHECK
\* ends the process.
Mapper(vm, fid, label, oid) ==
  LET r == GetGid(vm, fid, label, oid)
  IN IF r.found THEN [aborted |-> FALSE, ret |-> TRUE, gid |-> r.gid]
     ELSE [aborted |-> TRUE, ret |-> FALSE, gid |-> UnsetGid]

\* BasicArrowFragmentLoader::ShuffleEdgeTables(mapper) for the tables of one
\* sub-source: both ends of every row are resolved in the partition of their
\* id, the row goes to the partition of its source vertex with both columns
\* rewritten; a row whose resolver returned false is left out.  calls are the
\* outcomes of the resolver.
ShuffleEdgeTables(etabs, src_label_id, dst_label_id, vm) ==
  LET Src(r) == Mapper(vm, Assign(r[1]), src_label_id, r[1])
      Dst(r) == Mapper(vm, Assign(r[2]), dst_label_id, r[2])
      all == RowsOfAll([w \in Workers |-> <<etabs[w]>>], 1)
      calls == {Src(all[k]) : k \in 1 .. Len(all)} \cup {Dst(all[k]) : k \in 1 .. Len(all)}
      kept == SelectSeq(all, LAMBDA r : Src(r).ret /\ Dst(r).ret)
  IN IF \E c \in calls : c.aborted
     THEN [aborted |-> TRUE, calls |-> calls, tables |-> [fid \in Fids |-> <<>>]]
     ELSE [aborted |-> FALSE, calls |-> calls,
           tables |-> [fid \in Fids |->
                         LET mine == SelectSeq(kept, LAMBDA r : Assign(r[1]) = fid)
                         IN [k \in 1 .. Len(mine) |->
                               <<Src(mine[k]).gid, Dst(mine[k]).gid>>]]]

\* ------------------------------------------------------------------------
\* constructFragmentGroup
\* ------------------------------------------------------------------------
NotSent == [sent |-> FALSE, instance_id |-> 0, frag_id |-> NoObject]

\* Line 391: the worker that builds the group.
IsCoordinatorAny(w) == TRUE
IsCoordinator(w) == w = 0

\* Lines 396-402 and 423-426: both MPI_Gather calls of a worker; a worker
\* other than the root goes on to MPI_Bcast at once.
EnterGather(w) ==
  /\ Ready(w, "construct_group")
  /\ gather_buf' = [gather_buf EXCEPT ![w] =
                      [sent |-> TRUE, instance_id |-> InstanceId(w),
                       frag_id |-> ldr[w].lf.id]]
  /\ ldr' = [ldr EXCEPT ![w].pc = IF IsCoordinator(w) THEN "gather_wait"
                                  ELSE "bcast_wait",
                        ![w].took_part = @ \cup {"gather"}]
  /\ UNCHANGED <<calc, cfg, store, bcast_val>>

\* MPI_Gather returns at the root once every worker has sent.
GatherNoWait(buf) == TRUE
GatherComplete(buf) == \A w \in Workers : buf[w].sent

\* Lines 404-412: the entries of the group, one AddFragmentObject per fragment.
GroupEntriesByRank(buf) ==
  LET RECURSIVE Add(_, _)
      Add(m, i) == IF i >= Fnum THEN m
                   ELSE Add(MapPut(m, i, <<buf[i].frag_id, buf[i].instance_id>>),
                            i + 1)
  IN Add({}, 0)
GroupEntries(buf) ==
  LET RECURSIVE Add(_, _)
      Add(m, i) == IF i >= Fnum THEN m
                   ELSE Add(MapPut(m, i, <<buf[FragToWorker(i)].frag_id,
                                           buf[FragToWorker(i)].instance_id>>),
                            i + 1)
  IN Add({}, 0)

\* Lines 391-416: the root builds and seals the group.
BuildGroup(w) ==
  /\ IsCoordinator(w)
  /\ Ready(w, "gather_wait")
  /\ GatherComplete(gather_buf)
  /\ store' = store \cup
       {Object(ObjId("group", w), 0, GroupEntries(gather_buf),
               ldr[w].vertex_label_num_, ldr[w].edge_label_num_)}
  /\ ldr' = [ldr EXCEPT ![w].pc = "group_sealed"]
  /\ UNCHANGED <<calc, cfg, gather_buf, bcast_val>>

\* The id of the group broadcast before the outcome of Persist is looked at.
BroadcastBeforePersist(w, s, st, ok) ==
  [ldr |-> [s EXCEPT !.pc = "done", !.took_part = @ \cup {"bcast"},
                     !.ret = IF ok THEN [st |-> "ok", id |-> ObjId("group", w),
                                         err |-> NoError]
                             ELSE [st |-> "error", id |-> NoObject,
                                   err |-> GSError("VineyardError", "Persist group")]],
   store |-> IF ok THEN Persisted(st, ObjId("group", w)) ELSE st,
   bcast |-> ObjId("group", w)]
\* Lines 417-420 and 431: VY_OK_OR_RAISE(client.Persist(group_object_id)), then
\* the broadcast of the id.
PersistGroup(w, s, st, ok) ==
  IF ok
  THEN [ldr |-> [s EXCEPT !.pc = "done", !.took_part = @ \cup {"bcast"},
                          !.ret = [st |-> "ok", id |-> ObjId("group", w),
                                   err |-> NoError]],
        store |-> Persisted(st, ObjId("group", w)),
        bcast |-> ObjId("group", w)]
  ELSE [ldr |-> FailLoad(s, GSError("VineyardError", "Persist group")),
        store |-> st, bcast |-> NoObject]

AfterGroupSealed(w) ==
  /\ Ready(w, "group_sealed")
  /\ \E ok \in BOOLEAN :
       LET r == PersistGroup(w, ldr[w], store, ok)
       IN /\ ldr' = [ldr EXCEPT ![w] = r.ldr]
          /\ store' = r.store
          /\ bcast_val' = r.bcast
  /\ UNCHANGED <<calc, cfg, gather_buf>>

\* Lines 428-431: a worker other than the root receives the id of the group.
ReceiveBcast(w) ==
  /\ Ready(w, "bcast_wait")
  /\ bcast_val # NoObject
  /\ ldr' = [ldr EXCEPT ![w].pc = "done", ![w].took_part = @ \cup {"bcast"},
                        ![w].ret = [st |-> "ok", id |-> bcast_val, err |-> NoError]]
  /\ UNCHANGED <<calc, cfg, store, gather_buf, bcast_val>>

\* ------------------------------------------------------------------------
\* Specification
\* ------------------------------------------------------------------------
WorkerStep(w) ==
  \/ StartLoad(w)
  \/ AfterReadAgreed(w)
  \/ AfterSchemaGathered(w)
  \/ AfterSchemaAgreed(w)
  \/ AfterOuterAgreed(w)
  \/ AfterVertexShuffle(w)
  \/ AfterEdgeShuffle(w)
  \/ AfterFragmentSealed(w)
  \/ EnterGather(w)
  \/ BuildGroup(w)
  \/ AfterGroupSealed(w)
  \/ ReceiveBcast(w)

Next == Complete \/ \E w \in Workers : WorkerStep(w)

Spec == Init /\ [][Next]_vars
DataSpec == InitData /\ [][Next]_vars

\* Loads whose e-files have a sub-source without src_label, first or after a
\* complete one, in the same entry or the next, with a vertex file or without;
\* and the loads of a complete e-file.
GoodEDesc == [label |-> "e0", src_label |-> "v0", dst_label |-> "v0"]
NoSrcEDesc == [label |-> "e0", src_label |-> NoKey, dst_label |-> "v0"]
InitSrcLabel ==
  /\ cfg \in [vfiles : {<<>>, <<[label |-> "v0"]>>},
              efiles : {<<<<GoodEDesc>>>>, <<<<NoSrcEDesc>>>>,
                        <<<<GoodEDesc, NoSrcEDesc>>>>, <<<<GoodEDesc>>, <<NoSrcEDesc>>>>},
              schemas : {PlainSchemas}, nulls : {TRUE}, shift : {0}]
  /\ ldr = [w \in Workers |-> InitLoader]
  /\ store = {}
  /\ gather_buf = [w \in Workers |-> [sent |-> FALSE, instance_id |-> 0, frag_id |-> NoObject]]
  /\ bcast_val = NoObject
  /\ calc = NoCalc

\* Every worker process keeps running, and a collective that every worker has
\* entered completes.
FairSpec ==
  /\ InitSrcLabel /\ [][Next]_vars
  /\ WF_vars(Complete) /\ \A w \in Workers : WF_vars(WorkerStep(w))


\* Loads that differ in the label keys of their sources: a vertex source
\* without label; an edge sub-source without label, src_label or dst_label,
\* alone or after a complete sub-source; one edge label under two entries of
\* the e-files; two edge labels under one entry; a
\* src_label or dst_label that no vertex file declares; one vertex label in two vertex files; and complete loads.  Each
\* e-file list is loaded with vertex files and, the vertex files left out,
\* without.
VDesc(l) == [label |-> l]
EDesc(l, sl, dl) == [label |-> l, src_label |-> sl, dst_label |-> dl]
LabelEFiles ==
  {<<<<GoodEDesc>>>>,
   <<<<EDesc(NoKey, "v0", "v0")>>>>,
   <<<<NoSrcEDesc>>>>,
   <<<<EDesc("e0", "v0", NoKey)>>>>,
   <<<<GoodEDesc, EDesc(NoKey, "v0", "v0")>>>>,
   <<<<GoodEDesc, EDesc("e0", "v0", NoKey)>>>>,
   <<<<GoodEDesc>>, <<GoodEDesc>>>>,
   <<<<GoodEDesc>>, <<EDesc("e1", "v0", "v0")>>>>,
   <<<<GoodEDesc, EDesc("e1", "v0", "v0")>>>>,
   <<<<EDesc("e0", "v0", "v1")>>>>,
   <<<<GoodEDesc, EDesc("e0", "v1", "v0")>>>>}
LabelLoads ==
  {[vfiles |-> vf, efiles |-> ef] : vf \in {<<>>, <<VDesc("v0")>>}, ef \in LabelEFiles}
    \cup {[vfiles |-> vf, efiles |-> <<<<GoodEDesc>>>>] :
            vf \in {<<VDesc(NoKey)>>, <<VDesc("v0"), VDesc(NoKey)>>,
                    <<VDesc("v0"), VDesc("v0")>>, <<VDesc("v0"), VDesc("v1")>>,
                    <<VDesc("v1")>>}}
InitLabels ==
  /\ \E l \in LabelLoads :
       cfg = [vfiles |-> l.vfiles, efiles |-> l.efiles, schemas |-> PlainSchemas,
              nulls |-> FALSE, shift |-> 0]
  /\ ldr = [w \in Workers |-> InitLoader]
  /\ store = {}
  /\ gather_buf = [w \in Workers |-> [sent |-> FALSE, instance_id |-> 0, frag_id |-> NoObject]]
  /\ bcast_val = NoObject
  /\ calc = NoCalc

LabelSpec == InitLabels /\ [][Next]_vars

\* ------------------------------------------------------------------------
\* Loads of tables with property columns
\* ------------------------------------------------------------------------
\* What a read may infer: an id or src column, a second column, and a property
\* column whose name and type vary with the slice.
WideSchemas ==
  {<<Field("a", INT64), Field("b", INT64), Field("p", ty)>> : ty \in {INT64, FLOAT64}}
    \cup {<<Field("a", INT64), Field("b", INT64), Field("q", INT64)>>}
\* One vertex file and an e-file of one sub-source, or no vertex file and an
\* e-file of two sub-sources of one label between different vertex labels.
WideLoads ==
  {[vfiles |-> <<VDesc("v0")>>, efiles |-> <<<<GoodEDesc>>>>],
   [vfiles |-> <<>>, efiles |-> <<<<GoodEDesc, EDesc("e0", "v0", "v1")>>>>]}
InitWide ==
  /\ \E load \in WideLoads :
       cfg = [vfiles |-> load.vfiles, efiles |-> load.efiles,
              schemas |-> WideSchemas, nulls |-> TRUE, shift |-> 0]
  /\ ldr = [w \in Workers |-> InitLoader]
  /\ store = {}
  /\ gather_buf = [w \in Workers |-> [sent |-> FALSE, instance_id |-> 0, frag_id |-> NoObject]]
  /\ bcast_val = NoObject
  /\ calc = NoCalc

WideSpec == InitWide /\ [][Next]_vars


\* ------------------------------------------------------------------------
\* The member functions on inputs of their own
\* ------------------------------------------------------------------------
\* The orders of n entries, and a sequence in another order.
Orders(n) == {f \in [1 .. n -> 1 .. n] : \A i \in 1 .. n, j \in 1 .. n : f[i] = f[j] => i = j}
Permuted(seq, f) == [k \in 1 .. Len(seq) |-> seq[f[k]]]
\* The headers of a source of one or two columns, every column of a lattice type.
ColNames == <<"p", "q">>
SchemasOfWidth(k) ==
  {[i \in 1 .. k |-> Field(ColNames[i], t[i])] : t \in [1 .. k -> LatticeTypes]}
Widths == 1 .. Len(ColNames)

\* What GlobalAllGatherv may deliver for a source of k columns: per worker no
\* schema (a null table) or a schema of the k columns.
GatheredOfWidth(k) ==
  UNION {[1 .. n -> {NullTable} \cup {Table(sc) : sc \in SchemasOfWidth(k)}] :
           n \in 1 .. MaxSchemas}

\* Schemas TypeLoosen accepts beyond those: the first schema given has zero
\* fields (a table read with a header row has a column, so SyncSchema is
\* called on the tables above).
FirstSchema(tabs) == NonNullSchemas(tabs)[1]
GatheredZeroFirst ==
  {tabs \in UNION {[1 .. n -> {NullTable, Table(<<>>)} \cup
                                {Table(sc) : sc \in SchemasOfWidth(1)}] :
                     n \in 1 .. MaxSchemas} :
     /\ NonNullSchemas(tabs) # <<>>
     /\ FirstSchema(tabs) = <<>>}

\* The chunks the casts may be given: up to MaxCastRows rows of an int64 or
\* timestamp column, each row valid or null, its value small or 2^53 + 1.
MaxCastRows == 2
CastValues == {Small(0), Small(1), Number(1, 53, 1)}
CastArrays ==
  UNION {{ArrayOf(ty, sl) :
            ty \in {INT64, TIMESTAMP},
            sl \in [1 .. n -> {Slot(v, x) : v \in BOOLEAN, x \in CastValues}]} :
           n \in 0 .. MaxCastRows}

\* The tables CastTableToSchema may be given: a column holds no chunk (no row
\* was read into it) or one.
CastTables ==
  UNION {{TableOf(sc, ch) : sc \in SchemasOfWidth(k), ch \in [1 .. k -> {0, 1}]} :
           k \in Widths}
CastSchemas == UNION {SchemasOfWidth(k) : k \in Widths}

Call(fn, arg) == [fn |-> fn, step |-> 0, arg |-> arg, out |-> <<>>, again |-> <<>>]

\* The calls whose results are checked: TypeLoosen on gathered schemas;
\* SyncSchema of the worker of a rank on what the workers contributed, its own
\* table among them; CastTableToSchema of a table to a schema.
InitSchema ==
  /\ cfg = [vfiles |-> <<>>, efiles |-> <<>>, schemas |-> PlainSchemas,
            nulls |-> FALSE, shift |-> 0]
  /\ ldr = [w \in Workers |-> InitLoader]
  /\ store = {}
  /\ gather_buf = [w \in Workers |-> [sent |-> FALSE, instance_id |-> 0, frag_id |-> NoObject]]
  /\ bcast_val = NoObject
  /\ \/ \E k \in Widths : \E tabs \in GatheredOfWidth(k) :
          calc = Call("TypeLoosen", tabs)
     \/ \E tabs \in GatheredZeroFirst : calc = Call("TypeLoosen", tabs)
     \/ \E tabs \in GatheredOfWidth(1) : \E r \in 0 .. (Len(tabs) - 1) :
          calc = Call("SyncSchema", [rank |-> r, tabs |-> tabs])
     \/ \E t \in CastTables, sc \in CastSchemas :
          calc = Call("CastTableToSchema", [table |-> t, schema |-> sc])
     \/ \E fn \in {"CastIntToDouble", "CastDateToInt"}, in \in CastArrays,
           to_type \in {INT64, FLOAT64} :
          calc = Call(fn, [in |-> in, to_type |-> to_type])

ApplyTypeLoosen ==
  /\ calc.fn = "TypeLoosen" /\ calc.step = 0
  /\ calc' = [calc EXCEPT !.step = 1, !.out = TypeLoosen(calc.arg)]
  /\ UNCHANGED <<cfg, ldr, store, gather_buf, bcast_val>>

\* Every worker contributes the reconciled schema to a second reconciliation.
ReapplyTypeLoosen ==
  /\ calc.fn = "TypeLoosen" /\ calc.step = 1 /\ IsOk(calc.out.err)
  /\ calc' = [calc EXCEPT !.step = 2,
                !.again = TypeLoosen([j \in 1 .. Len(calc.arg) |-> Table(calc.out.schema)])]
  /\ UNCHANGED <<cfg, ldr, store, gather_buf, bcast_val>>

\* The same contributions of one column arrive in another rank order.
PermuteTypeLoosen ==
  /\ calc.fn = "TypeLoosen" /\ calc.step = 1
  /\ \A j \in 1 .. Len(calc.arg) : calc.arg[j].null \/ Len(calc.arg[j].schema) = 1
  /\ \E f \in Orders(Len(calc.arg)) :
       calc' = [calc EXCEPT !.step = 3,
                  !.again = [arg |-> Permuted(calc.arg, f),
                             out |-> TypeLoosen(Permuted(calc.arg, f))]]
  /\ UNCHANGED <<cfg, ldr, store, gather_buf, bcast_val>>

ApplySyncSchema ==
  /\ calc.fn = "SyncSchema" /\ calc.step = 0
  /\ calc' = [calc EXCEPT !.step = 1,
                !.out = SyncSchema(calc.arg.rank, calc.arg.tabs[calc.arg.rank + 1],
                                   calc.arg.tabs)]
  /\ UNCHANGED <<cfg, ldr, store, gather_buf, bcast_val>>

ApplyCastTableToSchema ==
  /\ calc.fn = "CastTableToSchema" /\ calc.step = 0
  /\ calc' = [calc EXCEPT !.step = 1,
                !.out = CastTableToSchema(calc.arg.table, calc.arg.schema)]
  /\ UNCHANGED <<cfg, ldr, store, gather_buf, bcast_val>>

ApplyCastIntToDouble ==
  /\ calc.fn = "CastIntToDouble" /\ calc.step = 0
  /\ calc' = [calc EXCEPT !.step = 1,
                !.out = CastIntToDouble(calc.arg.in, calc.arg.to_type)]
  /\ UNCHANGED <<cfg, ldr, store, gather_buf, bcast_val>>

ApplyCastDateToInt ==
  /\ calc.fn = "CastDateToInt" /\ calc.step = 0
  /\ calc' = [calc EXCEPT !.step = 1,
                !.out = CastDateToInt(calc.arg.in, calc.arg.to_type)]
  /\ UNCHANGED <<cfg, ldr, store, gather_buf, bcast_val>>

NextSchema ==
  \/ ApplyTypeLoosen
  \/ ReapplyTypeLoosen
  \/ PermuteTypeLoosen
  \/ ApplySyncSchema
  \/ ApplyCastTableToSchema
  \/ ApplyCastIntToDouble
  \/ ApplyCastDateToInt

SchemaSpec == InitSchema /\ [][NextSchema]_vars

\* ------------------------------------------------------------------------
\* The vertex labels and vertex tables of a load without vertex files
\* ------------------------------------------------------------------------
NamedLabels == {LabelOrder[k] : k \in 1 .. Len(LabelOrder)}
NamedEDescs == {EDesc("e0", sl, dl) : sl \in NamedLabels, dl \in NamedLabels}
\* E-file lists of complete sub-sources, each entry one sub-source or all
\* sub-sources in one entry.
NamedSubs == UNION {[1 .. n -> NamedEDescs] : n \in 1 .. MaxESources}
AsEntries(subs) == [k \in 1 .. Len(subs) |-> <<subs[k]>>]
NamedEFiles == {AsEntries(subs) : subs \in NamedSubs} \cup {<<subs>> : subs \in NamedSubs}

\* The rows of an edge table: the vertex ids of columns 0 and 1.
Oids == 1 .. MaxOid
RowLists == SeqsUpTo(Oids \X Oids, MaxRows)

\* The first pass on e-files and on the same sub-sources in another order; and
\* both passes on e-files over two vertex labels.
VertexLessCalls ==
  UNION {{Call("NumberLabels", [a |-> AsEntries(subs), b |-> AsEntries(Permuted(subs, f))]) :
            f \in Orders(Len(subs))} : subs \in NamedSubs}
    \cup {Call("loadEVTablesFromEFiles", ef) :
            ef \in {e \in NamedEFiles : \A k \in 1 .. Len(FlatSubs(e)) :
                                           {FlatSubs(e)[k].src_label, FlatSubs(e)[k].dst_label}
                                             \subseteq VLabels}}

InitVertexLess ==
  /\ cfg = [vfiles |-> <<>>, efiles |-> <<>>, schemas |-> PlainSchemas,
            nulls |-> FALSE, shift |-> 0]
  /\ ldr = [w \in Workers |-> InitLoader]
  /\ store = {}
  /\ gather_buf = [w \in Workers |-> [sent |-> FALSE, instance_id |-> 0, frag_id |-> NoObject]]
  /\ bcast_val = NoObject
  /\ calc \in VertexLessCalls

ApplyNumberLabels ==
  /\ calc.fn = "NumberLabels" /\ calc.step = 0
  /\ calc' = [calc EXCEPT !.step = 1,
                !.out = NumberLabels(DiscoveredNames(calc.arg.a)),
                !.again = NumberLabels(DiscoveredNames(calc.arg.b))]
  /\ UNCHANGED <<cfg, ldr, store, gather_buf, bcast_val>>

\* Lines 580-624: the labels are numbered, the sets are empty.  k counts the
\* sub-sources read; given is what the tables read so far hold: the pairs of a
\* label name and a vertex id in a column of that label.
NumberAndScan ==
  /\ calc.fn = "loadEVTablesFromEFiles" /\ calc.step = 0
  /\ LET numbered == NumberLabels(DiscoveredNames(calc.arg))
     IN calc' = [calc EXCEPT !.step = 1,
                   !.out = [num |-> numbered.num, map |-> numbered.map, k |-> 0,
                            oids |-> [i \in 1 .. numbered.num |-> {}],
                            given |-> {}, vtables |-> <<>>]]
  /\ UNCHANGED <<cfg, ldr, store, gather_buf, bcast_val>>

\* Lines 626-726 for one sub-source whose table holds the rows.
InsertSubSource ==
  /\ calc.fn = "loadEVTablesFromEFiles" /\ calc.step = 1
  /\ calc.out.k < Len(FlatSubs(calc.arg))
  /\ \E rows \in RowLists :
       LET d == FlatSubs(calc.arg)[calc.out.k + 1]
           o == calc.out
       IN calc' = [calc EXCEPT
                     !.out.k = @ + 1,
                     !.out.oids = InsertEndpoints(@, MapAt(o.map, d.src_label),
                                                  MapAt(o.map, d.dst_label), rows),
                     !.out.given = @ \cup {<<d.src_label, rows[r][1]>> : r \in 1 .. Len(rows)}
                                     \cup {<<d.dst_label, rows[r][2]>> : r \in 1 .. Len(rows)}]
  /\ UNCHANGED <<cfg, ldr, store, gather_buf, bcast_val>>

\* Lines 729-748 after the last sub-source.
BuildVTables ==
  /\ calc.fn = "loadEVTablesFromEFiles" /\ calc.step = 1
  /\ calc.out.k = Len(FlatSubs(calc.arg))
  /\ calc' = [calc EXCEPT !.step = 2,
                !.out.vtables = OidVTables(calc.out.map, calc.out.num, calc.out.oids)]
  /\ UNCHANGED <<cfg, ldr, store, gather_buf, bcast_val>>

NextVertexLess ==
  \/ ApplyNumberLabels
  \/ NumberAndScan
  \/ InsertSubSource
  \/ BuildVTables

VertexLessSpec == InitVertexLess /\ [][NextVertexLess]_vars

\* ------------------------------------------------------------------------
\* The rows of a load: vertex shuffle, vertex map, edge shuffle
\* ------------------------------------------------------------------------
\* The edges of the graph, all of one sub-source; the worker of rank
\* (k - 1) % NumWorkers reads row k.
MaxEdges == 2
EdgeLists == SeqsUpTo(Oids \X Oids, MaxEdges)
EdgeSlice(erows, w) ==
  LET RECURSIVE Take(_)
      Take(k) == IF k > Len(erows) THEN <<>>
                 ELSE (IF (k - 1) % NumWorkers = w THEN <<erows[k]>> ELSE <<>>) \o Take(k + 1)
  IN Take(1)
\* The vertex files of a load with vertex files, one per label; the worker of
\* rank (oid + label id) % NumWorkers reads the row of a vertex.
RowVFiles == <<VDesc("v0"), VDesc("v1")>>
RowEDescs == {GoodEDesc, EDesc("e0", "v0", "v1")}
VertexSets == [1 .. Len(RowVFiles) -> SUBSET Oids]

\* Lines 480-484 for the vertex files, lines 611-619 without them.
RowLabels(arg) ==
  IF arg.vfiles_empty THEN NumberLabels(DiscoveredNames(<<<<arg.desc>>>>))
  ELSE [num |-> Len(RowVFiles),
        map |-> {<<RowVFiles[i].label, i - 1>> : i \in 1 .. Len(RowVFiles)}]
\* partial_v_tables of a worker: the id column of its slice of every vertex
\* file, or (lines 717-748) of the tables made of the ends of its edges.
PartialVTables(arg, w) ==
  LET labels == RowLabels(arg)
  IN IF arg.vfiles_empty
     THEN LET oids == InsertEndpoints([l \in 1 .. labels.num |-> {}],
                                      MapAt(labels.map, arg.desc.src_label),
                                      MapAt(labels.map, arg.desc.dst_label),
                                      EdgeSlice(arg.erows, w))
              vt == OidVTables(labels.map, labels.num, oids)
          IN [l \in 1 .. labels.num |-> vt[l].oids]
     ELSE [l \in 1 .. labels.num |->
             ToArrowArray({o \in arg.vset[l] : (o + l - 1) % NumWorkers = w})]

RowCall(vfiles_empty, desc, vset, erows) ==
  Call("shuffleAndBuild",
       [vfiles_empty |-> vfiles_empty, desc |-> desc, vset |-> vset, erows |-> erows])

InitRows ==
  /\ cfg = [vfiles |-> <<>>, efiles |-> <<>>, schemas |-> PlainSchemas,
            nulls |-> FALSE, shift |-> 0]
  /\ ldr = [w \in Workers |-> InitLoader]
  /\ store = {}
  /\ gather_buf = [w \in Workers |-> [sent |-> FALSE, instance_id |-> 0, frag_id |-> NoObject]]
  /\ bcast_val = NoObject
  /\ \E desc \in RowEDescs, erows \in EdgeLists :
       \/ calc = RowCall(TRUE, desc, <<>>, erows)
       \/ \E vset \in VertexSets : calc = RowCall(FALSE, desc, vset, erows)

\* Lines 254-276: the tables of every worker go to the basic loader.
AcquireRows ==
  /\ calc.fn = "shuffleAndBuild" /\ calc.step = 0
  /\ calc' = [calc EXCEPT !.step = 1,
                !.out = [labels |-> RowLabels(calc.arg),
                         partial_v |-> [w \in Workers |-> PartialVTables(calc.arg, w)],
                         partial_e |-> [w \in Workers |-> EdgeSlice(calc.arg.erows, w)],
                         local_v |-> <<>>, vm |-> {}, edges |-> <<>>]]
  /\ UNCHANGED <<cfg, ldr, store, gather_buf, bcast_val>>

\* Lines 280-283 on every worker.
ShuffleVertexRows ==
  /\ calc.fn = "shuffleAndBuild" /\ calc.step = 1
  /\ calc' = [calc EXCEPT !.step = 2,
                !.out.local_v = ShuffleVertices(calc.arg.vfiles_empty, calc.out.partial_v,
                                                calc.out.labels.num)]
  /\ UNCHANGED <<cfg, ldr, store, gather_buf, bcast_val>>

\* The vertex map built from the tables a worker read, not from the tables
\* the shuffle gave it.
SealVertexMapUnshuffled ==
  /\ calc.fn = "shuffleAndBuild" /\ calc.step = 2
  /\ calc' = [calc EXCEPT !.step = 3,
                !.out.vm = BuildVertexMap(calc.out.labels.num,
                                          [fid \in Fids |-> calc.out.partial_v[fid]])]
  /\ UNCHANGED <<cfg, ldr, store, gather_buf, bcast_val>>

\* Lines 283-289 on every worker.
SealVertexMapRows ==
  /\ calc.fn = "shuffleAndBuild" /\ calc.step = 2
  /\ calc' = [calc EXCEPT !.step = 3,
                !.out.vm = BuildVertexMap(calc.out.labels.num, calc.out.local_v)]
  /\ UNCHANGED <<cfg, ldr, store, gather_buf, bcast_val>>

\* Lines 290-296 on every worker.
ShuffleEdgeRows ==
  /\ calc.fn = "shuffleAndBuild" /\ calc.step = 3
  /\ calc' = [calc EXCEPT !.step = 4,
                !.out.edges = ShuffleEdgeTables(
                                calc.out.partial_e,
                                MapAt(calc.out.labels.map, calc.arg.desc.src_label),
                                MapAt(calc.out.labels.map, calc.arg.desc.dst_label),
                                calc.out.vm)]
  /\ UNCHANGED <<cfg, ldr, store, gather_buf, bcast_val>>

NextRows ==
  \/ AcquireRows
  \/ ShuffleVertexRows
  \/ SealVertexMapRows
  \/ ShuffleEdgeRows

RowSpec == InitRows /\ [][NextRows]_vars

\* ------------------------------------------------------------------------
\* The constructor over streams: gatherVTables, gatherETables
\* ------------------------------------------------------------------------
MaxStreams == 2
StreamELabels == <<"e0", "e1", "e2">>

\* A stream as the worker finds it: the label keys of its metadata and whether
\* readTableFromVineyard succeeds on it.
VStream(l, ok) == [label |-> l, ok |-> ok]
EStream(l, sl, dl, ok) == [label |-> l, src_label |-> sl, dst_label |-> dl, ok |-> ok]

\* Lines 141-152: the members when the body of the constructor starts.
StreamLoader(vstreams, estreams) ==
  [vertex_label_num_ |-> Len(vstreams), edge_label_num_ |-> Len(estreams),
   vertex_label_to_index_ |-> {}, edge_label_to_index_ |-> {},
   edge_vertex_label_ |-> {},
   partial_v_tables_ |-> <<>>, partial_e_tables_ |-> <<>>,
   tables |-> <<>>, subtables |-> <<>>, label_id |-> 0, j |-> 0, st |-> "ok"]

\* Lines 778-800: one turn of the loop of gatherVTables.  A stream that is not
\* read is logged and left out; a table without label fails VINEYARD_ASSERT.
GatherVTable(g, vstream) ==
  IF ~vstream.ok THEN [g EXCEPT !.label_id = @ + 1]
  ELSE IF vstream.label = NoKey THEN [g EXCEPT !.st = "assert"]
  ELSE [g EXCEPT !.tables = Append(@, [label |-> vstream.label, null |-> FALSE]),
                 !.vertex_label_to_index_ = MapPut(@, vstream.label, g.label_id),
                 !.label_id = @ + 1]

\* Lines 812-859: one turn of the inner loop of gatherETables.  at() of a
\* vertex label that is in no map throws std::out_of_range, which nothing in
\* the constructor catches.
GatherETable(g, estream) ==
  IF ~estream.ok THEN [g EXCEPT !.j = @ + 1]
  ELSE IF NoKey \in {estream.label, estream.src_label, estream.dst_label}
  THEN [g EXCEPT !.st = "assert"]
  ELSE IF \/ ~MapHas(g.vertex_label_to_index_, estream.src_label)
          \/ ~MapHas(g.vertex_label_to_index_, estream.dst_label)
  THEN [g EXCEPT !.st = "std::out_of_range"]
  ELSE [g EXCEPT
          !.subtables =
             Append(@, [label |-> estream.label,
                        src |-> MapAt(g.vertex_label_to_index_, estream.src_label),
                        dst |-> MapAt(g.vertex_label_to_index_, estream.dst_label)]),
          !.edge_vertex_label_ =
             @ \cup {<<estream.label, estream.src_label, estream.dst_label>>},
          !.edge_label_to_index_ = MapPut(@, estream.label, g.label_id),
          !.j = @ + 1]
\* Lines 860-862: the sub-tables of a label are kept when there is one.
EndSubStreams(g) ==
  [g EXCEPT !.tables = IF g.subtables # <<>> THEN Append(@, g.subtables) ELSE @,
            !.subtables = <<>>, !.label_id = @ + 1, !.j = 0]

\* The streams of a load: the vertex stream of label index i carries the label
\* LabelOrder[i], the sub-streams of edge label index i the label
\* StreamELabels[i] between two of the vertex labels; each is read or not.
VStreams ==
  UNION {{[i \in 1 .. n |-> VStream(LabelOrder[i], ok[i])] : ok \in [1 .. n -> BOOLEAN]} :
           n \in 1 .. MaxStreams}
ESubStreams(i, n) ==
  UNION {[1 .. k -> {EStream(StreamELabels[i], LabelOrder[sl], LabelOrder[1], ok) :
                       sl \in 1 .. n, ok \in BOOLEAN}] :
           k \in 1 .. MaxESources}
EStreams(n) ==
  UNION {{es \in [1 .. m -> UNION {ESubStreams(i, n) : i \in 1 .. m}] :
            \A i \in 1 .. m : es[i] \in ESubStreams(i, n)} :
           m \in 1 .. MaxStreams}

InitStream ==
  /\ cfg = [vfiles |-> <<>>, efiles |-> <<>>, schemas |-> PlainSchemas,
            nulls |-> FALSE, shift |-> 0]
  /\ ldr = [w \in Workers |-> InitLoader]
  /\ store = {}
  /\ gather_buf = [w \in Workers |-> [sent |-> FALSE, instance_id |-> 0, frag_id |-> NoObject]]
  /\ bcast_val = NoObject
  /\ \E vstreams \in VStreams : \E estreams \in EStreams(Len(vstreams)) :
       calc = [fn |-> "streams", step |-> 0,
               arg |-> [vstreams |-> vstreams, estreams |-> estreams],
               out |-> StreamLoader(vstreams, estreams), again |-> <<>>]

Gathering(step) == calc.fn = "streams" /\ calc.step = step /\ calc.out.st = "ok"

\* The loop of gatherVTables, a stream at a time.
GatherVStream ==
  /\ Gathering(0) /\ calc.out.label_id < Len(calc.arg.vstreams)
  /\ calc' = [calc EXCEPT
                !.out = GatherVTable(@, calc.arg.vstreams[calc.out.label_id + 1])]
  /\ UNCHANGED <<cfg, ldr, store, gather_buf, bcast_val>>
\* Line 152: partial_v_tables_ = gatherVTables(client, vstreams)
EndGatherVTables ==
  /\ Gathering(0) /\ calc.out.label_id = Len(calc.arg.vstreams)
  /\ calc' = [calc EXCEPT !.step = 1,
                !.out = [@ EXCEPT !.partial_v_tables_ = calc.out.tables,
                                  !.tables = <<>>, !.label_id = 0]]
  /\ UNCHANGED <<cfg, ldr, store, gather_buf, bcast_val>>
\* The loops of gatherETables, a sub-stream at a time.
GatherEStream ==
  /\ Gathering(1) /\ calc.out.label_id < Len(calc.arg.estreams)
  /\ calc.out.j < Len(calc.arg.estreams[calc.out.label_id + 1])
  /\ calc' = [calc EXCEPT
                !.out = GatherETable(@, calc.arg.estreams[calc.out.label_id + 1][calc.out.j + 1])]
  /\ UNCHANGED <<cfg, ldr, store, gather_buf, bcast_val>>
EndGatherELabel ==
  /\ Gathering(1) /\ calc.out.label_id < Len(calc.arg.estreams)
  /\ calc.out.j = Len(calc.arg.estreams[calc.out.label_id + 1])
  /\ calc' = [calc EXCEPT !.out = EndSubStreams(@)]
  /\ UNCHANGED <<cfg, ldr, store, gather_buf, bcast_val>>
\* Line 153: partial_e_tables_ = gatherETables(client, estreams)
EndGatherETables ==
  /\ Gathering(1) /\ calc.out.label_id = Len(calc.arg.estreams)
  /\ calc' = [calc EXCEPT !.step = 2,
                !.out = [@ EXCEPT !.partial_e_tables_ = calc.out.tables,
                                  !.tables = <<>>, !.label_id = 0]]
  /\ UNCHANGED <<cfg, ldr, store, gather_buf, bcast_val>>
\* Lines 241-247: initBasicLoader takes the gathered tables when neither list
\* is empty, and loads from the (empty) file lists otherwise.
UsePartialTables ==
  /\ Gathering(2)
  /\ calc' = [calc EXCEPT !.step = 3,
                !.again = (calc.out.partial_v_tables_ # <<>>
                             /\ calc.out.partial_e_tables_ # <<>>)]
  /\ UNCHANGED <<cfg, ldr, store, gather_buf, bcast_val>>

NextStream ==
  \/ GatherVStream
  \/ EndGatherVTables
  \/ GatherEStream
  \/ EndGatherELabel
  \/ EndGatherETables
  \/ UsePartialTables

StreamSpec == InitStream /\ [][NextStream]_vars

\* ------------------------------------------------------------------------
\* The Python binding of BlobBuilder: writes into the blob
\* ------------------------------------------------------------------------
\* size_t has SizeWidth bits; a blob has up to MaxBlobSize bytes, a bytes
\* argument up to MaxBytes, and up to MaxCalls calls are made on a builder.
SizeWidth == 3
MaxBlobSize == 2
MaxBytes == 2
MaxCalls == 2
SizeT == 0 .. (2 ^ SizeWidth - 1)

\* A BlobWriter of n bytes: the offsets from data() written so far, and whether
\* the process goes on ("ok"), failed VINEYARD_ASSERT or crashed.
BlobWriter(n) == [size |-> n, written |-> {}, st |-> "ok"]

\* std::memcpy or a store of k bytes at data() + offset.  Inside the blob the
\* bytes are written; reaching outside it is undefined: the bytes are written
\* where they fall, or the process crashes on the access.
Write(b, offset, k, outcome) ==
  IF k = 0 \/ offset + k <= b.size \/ outcome = "written"
  THEN [b EXCEPT !.written = @ \cup (offset .. (offset + k - 1))]
  ELSE [b EXCEPT !.st = "crash"]
WriteOutcomes == {"written", "crash"}

\* core.cc lines 329-335: __setitem__(index, value), unchecked.
SetItem(b, index, outcome) == Write(b, index, 1, outcome)
\* core.cc lines 344-351: copy(offset, address, size), unchecked.
CopyAddress(b, offset, size, outcome) == Write(b, offset, size, outcome)
\* core.cc lines 352-360: copy(offset, bytes) asserts offset + ss.size() <=
\* size(), the sum computed in size_t, and copies when the assertion holds.
CopyBytes(b, offset, len, outcome) ==
  IF (offset + len) % (2 ^ SizeWidth) <= b.size
  THEN Write(b, offset, len, outcome)
  ELSE [b EXCEPT !.st = "assert"]

InitBlob ==
  /\ cfg = [vfiles |-> <<>>, efiles |-> <<>>, schemas |-> PlainSchemas,
            nulls |-> FALSE, shift |-> 0]
  /\ ldr = [w \in Workers |-> InitLoader]
  /\ store = {}
  /\ gather_buf = [w \in Workers |-> [sent |-> FALSE, instance_id |-> 0, frag_id |-> NoObject]]
  /\ bcast_val = NoObject
  /\ \E n \in 0 .. MaxBlobSize :
       calc = [fn |-> "BlobBuilder", step |-> 0, arg |-> <<>>,
               out |-> BlobWriter(n), again |-> <<>>]

\* A call on the builder; arg is the call, again the builder before it.
Calling == calc.fn = "BlobBuilder" /\ calc.step < MaxCalls /\ calc.out.st = "ok"
CallSetItem ==
  /\ Calling
  /\ \E index \in SizeT, outcome \in WriteOutcomes :
       calc' = [calc EXCEPT !.step = @ + 1,
                  !.arg = [offset |-> index, size |-> 1],
                  !.again = calc.out,
                  !.out = SetItem(calc.out, index, outcome)]
  /\ UNCHANGED <<cfg, ldr, store, gather_buf, bcast_val>>
CallCopyAddress ==
  /\ Calling
  /\ \E offset \in SizeT, size \in 0 .. MaxBytes, outcome \in WriteOutcomes :
       calc' = [calc EXCEPT !.step = @ + 1,
                  !.arg = [offset |-> offset, size |-> size],
                  !.again = calc.out,
                  !.out = CopyAddress(calc.out, offset, size, outcome)]
  /\ UNCHANGED <<cfg, ldr, store, gather_buf, bcast_val>>
CallCopyBytes ==
  /\ Calling
  /\ \E offset \in SizeT, len \in 0 .. MaxBytes, outcome \in WriteOutcomes :
       calc' = [calc EXCEPT !.step = @ + 1,
                  !.arg = [offset |-> offset, size |-> len],
                  !.again = calc.out,
                  !.out = CopyBytes(calc.out, offset, len, outcome)]
  /\ UNCHANGED <<cfg, ldr, store, gather_buf, bcast_val>>

NextBlob ==
  \/ CallSetItem
  \/ CallCopyAddress
  \/ CallCopyBytes

BlobSpec == InitBlob /\ [][NextBlob]_vars

\* ------------------------------------------------------------------------
\* Properties
\* ------------------------------------------------------------------------
Returned(w) == ldr[w].pc = "done"
GroupObjects == {o \in store : o.id.kind = "group"}
FragmentOf(w) == {o \in store : o.id = ObjId("frag", w)}

\* C1: once LoadFragmentAsFragmentGroup has returned a group id, the group has
\* exactly one entry per fragment id 0..fnum-1 and none else, and the entry of
\* fragment i holds the fragment id and the instance id that worker
\* FragToWorker(i) passed to the gather, the id of the fragment with fid i.
C1_GroupCoversFragments ==
  \A w \in Workers :
     ldr[w].ret.st = "ok" =>
       \E g \in store :
          /\ g.id = ldr[w].ret.id
          /\ \A e \in g.entries : e[1] \in 0 .. (Fnum - 1)
          /\ \A i \in 0 .. (Fnum - 1) :
               LET v == FragToWorker(i)
               IN /\ {e \in g.entries : e[1] = i}
                       = {<<i, <<ldr[v].lf.id, InstanceId(v)>>>>}
                  /\ \E f \in store : f.id = ldr[v].lf.id /\ f.fid = i
C1_Witness ==
  /\ cfg.shift # 0
  /\ \A w \in Workers : ldr[w].ret.st = "ok"

\* C2: at most one group object is ever created, only worker 0 creates one,
\* and every worker that returns a group id returns the id of that one object.
C2_OneGroupByCoordinator ==
  /\ Cardinality(GroupObjects) <= 1
  /\ \A o \in GroupObjects : o.id.owner = 0
  /\ \A w \in Workers :
       ldr[w].ret.st = "ok" =>
         /\ GroupObjects = {o \in store : o.id = ldr[w].ret.id}
         /\ Cardinality(GroupObjects) = 1
  /\ \A w \in Workers, v \in Workers :
       ldr[w].ret.st = "ok" /\ ldr[v].ret.st = "ok" => ldr[w].ret.id = ldr[v].ret.id
C2_Witness ==
  /\ \A w \in Workers : ldr[w].ret.st = "ok"
  /\ Cardinality(GroupObjects) = 1

\* C3: when the group object exists, the fragment of every one of the fnum
\* partitions has been sealed and persisted.
C3_GroupAfterAllFragments ==
  GroupObjects # {} =>
    \A fid \in 0 .. (Fnum - 1) :
       \E f \in store : f.id.kind = "frag" /\ f.fid = fid /\ f.persisted
C3_Witness == GroupObjects # {} /\ \E w \in Workers : ldr[w].pc = "bcast_wait"

\* C4: when some edge sub-source lacks src_label, every worker's load call
\* eventually returns.
HasNoSrcLabel ==
  \E i \in 1 .. Len(cfg.efiles) : \E j \in 1 .. Len(cfg.efiles[i]) :
     cfg.efiles[i][j].src_label = NoKey
AllReturned == \A w \in Workers : Returned(w)
C4_NoSrcLabelAllReturn == HasNoSrcLabel ~> AllReturned
C4_Witness ==
  /\ HasNoSrcLabel
  /\ \A w \in Workers : Returned(w) /\ ldr[w].ret.st = "error"
  /\ \E w \in Workers : ldr[w].raised.err.msg = "edge files should contain src label name"

\* The worker itself raised the error of a sub-source that lacks src_label.
RaisedNoSrcLabel(w) ==
  LET r == ldr[w].raised
  IN /\ r.err.code = "IOError"
     /\ r.err.msg \in {"edge files should contain src label name",
                       "edge files should contain label name"}
     /\ r.at.ph \in {"scan", "e", "ev"}
     /\ EDescAt(r.at).src_label = NoKey

\* C5: the error of a missing src_label is raised before the worker has taken
\* part in any collective (error agreement, schema all-gather, shuffle, gather
\* or broadcast), with vertex files and without.
C5_Original ==
  \A w \in Workers : RaisedNoSrcLabel(w) => ldr[w].raised.after = {}

\* C6: when the read of a source fails on a worker, no worker enters the
\* schema all-gather of that source, none gets past table acquisition, and a
\* worker that has returned has returned an error.
PastAcquisition ==
  {"v_shuffled", "e_shuffled", "frag_sealed", "construct_group", "gather_wait",
   "group_sealed", "bcast_wait"}
C6_ReadFailureSeenByAll ==
  \A w1 \in Workers, w2 \in Workers :
     ldr[w1].rd.failed =>
       /\ ldr[w2].synced # ldr[w1].rd.cur
       /\ ldr[w2].pc \notin PastAcquisition
       /\ Returned(w2) => ldr[w2].lf.st = "error" /\ ldr[w2].ret.st = "error"
C6_Witness ==
  \E w1 \in Workers, w2 \in Workers :
     /\ ldr[w1].rd.failed /\ ~ldr[w2].rd.failed
     /\ ldr[w2].rd.cur = ldr[w1].rd.cur
     /\ \A w \in Workers : Returned(w)

\* C7: LoadFragment has returned an id only if that id is a sealed and
\* persisted fragment, and when it has returned an error the store holds no
\* fragment of this worker.
C7_LoadAtomic ==
  \A w \in Workers :
     /\ ldr[w].lf.st = "ok" =>
          \E f \in store : f.id = ldr[w].lf.id /\ f.id.kind = "frag" /\ f.persisted
     /\ ldr[w].lf.st = "error" => FragmentOf(w) = {}
C7_Witness ==
  \E w \in Workers, v \in Workers :
     /\ ldr[w].lf.st = "ok"
     /\ ldr[v].lf.st = "error" /\ ldr[v].lf.err.msg = "frag_builder.Init"

\* C8: a load call that has returned an error has left no object of
\* its own in the store.
C8_Original ==
  \A w \in Workers :
     ldr[w].ret.st = "error" => \A o \in store : o.id.owner # w

\* C9: no load call is left by a raw exception or a process abort.
C9_Original == \A w \in Workers : ldr[w].ret.st # "fatal"

\* The order of the lattice (line 903): timestamp -> int64 -> double -> utf8.
TypeRank(t) ==
  CASE t = TIMESTAMP -> 1 [] t = INT64 -> 2 [] t = FLOAT64 -> 3 [] t = UTF8 -> 4
HighestType(T) == CHOOSE t \in T : \A u \in T : TypeRank(u) <= TypeRank(t)
Loosened == calc.fn = "TypeLoosen" /\ calc.step >= 1 /\ IsOk(calc.out.err)
Contributed == NonNullSchemas(calc.arg)

\* C11: for every column, TypeLoosen returns the highest of the contributed
\* types in the order timestamp < int64 < float64 < utf8.
C11_Original ==
  Loosened =>
    \A i \in 1 .. Len(calc.out.schema) :
       calc.out.schema[i].type =
         HighestType({Contributed[j][i].type : j \in 1 .. Len(Contributed)})

\* C12: TypeLoosen of a list whose non-empty entries all equal one schema S
\* returns S.
C12_Original ==
  Loosened /\ (\A j \in 1 .. Len(Contributed) : Contributed[j] = Contributed[1])
    => calc.out.schema = Contributed[1]

\* C13: when every worker contributes the result of a TypeLoosen, TypeLoosen
\* returns that result again.
C13_Idempotent ==
  calc.fn = "TypeLoosen" /\ calc.step = 2
    => IsOk(calc.again.err) /\ calc.again.schema = calc.out.schema
C13_Witness ==
  /\ calc.fn = "TypeLoosen" /\ calc.step = 2
  /\ Len(calc.arg) > 1 /\ calc.arg[1].null
  /\ calc.out.schema # Contributed[1]
  /\ \E i \in 1 .. Len(calc.out.schema) : calc.out.schema[i].type = UTF8

\* C14: a worker without a table, when another worker contributed a schema,
\* gets from SyncSchema, without an error, a table without rows whose schema is
\* the reconciled one; float64 when the schemas contributed are float64.
SyncedWithoutTable ==
  /\ calc.fn = "SyncSchema" /\ calc.step = 1
  /\ calc.arg.tabs[calc.arg.rank + 1].null
  /\ NonNullSchemas(calc.arg.tabs) # <<>>
C14_EmptyTableOfReconciledSchema ==
  SyncedWithoutTable =>
    /\ IsOk(calc.out.err)
    /\ ~calc.out.table.null
    /\ \A i \in 1 .. Len(calc.out.table.chunks) : calc.out.table.chunks[i] = 0
    /\ calc.out.table.schema = TypeLoosen(calc.arg.tabs).schema
    /\ Len(calc.out.table.schema) = Len(NonNullSchemas(calc.arg.tabs)[1])
    /\ \A i \in 1 .. Len(calc.out.table.schema) :
         (\A j \in 1 .. Len(NonNullSchemas(calc.arg.tabs)) :
             NonNullSchemas(calc.arg.tabs)[j][i].type = FLOAT64)
           => calc.out.table.schema[i] = Field(ColNames[i], FLOAT64)
C14_Witness ==
  /\ SyncedWithoutTable
  /\ calc.arg.rank = 0 /\ Len(calc.arg.tabs) = 2
  /\ calc.arg.tabs[2] = Table(<<Field("p", FLOAT64)>>)
  /\ calc.out.table = EmptyTable(<<Field("p", FLOAT64)>>)

\* C15: CastTableToSchema fails with a data type error, and yields no table,
\* when some column differs in type from the schema by another pair than
\* int64 -> float64 and timestamp -> int64; else it yields the table under the
\* schema, the columns of the same type unchanged.
C15_Original ==
  (/\ calc.fn = "CastTableToSchema" /\ calc.step = 1
   /\ Len(calc.arg.table.schema) = Len(calc.arg.schema))
    => IF \E i \in 1 .. Len(calc.arg.schema) :
            /\ calc.arg.table.schema[i].type # calc.arg.schema[i].type
            /\ ~CastSupported(calc.arg.table.schema[i].type, calc.arg.schema[i].type)
       THEN calc.out.err.code = "DataTypeError" /\ calc.out.table.null
       ELSE /\ IsOk(calc.out.err)
            /\ calc.out.table = TableOf(calc.arg.schema, calc.arg.table.chunks)

\* The sources whose file name lacks a required key: a vertex file without
\* label, an edge sub-source without label, src_label or dst_label.
LackingVSources == {i \in 0 .. (Len(cfg.vfiles) - 1) : cfg.vfiles[i + 1].label = NoKey}
LackingESources ==
  {<<i, j>> \in (0 .. (Len(cfg.efiles) - 1)) \X (0 .. (MaxESources - 1)) :
     /\ j < Len(cfg.efiles[i + 1])
     /\ LET d == cfg.efiles[i + 1][j + 1]
        IN NoKey \in {d.label, d.src_label, d.dst_label}}
\* What a worker holds of a source once the source is registered: the table at
\* its place and the label index.
VRegistered(s, i) ==
  \/ Len(s.v_tables) > i
  \/ \E p \in s.vertex_label_to_index_ : p[2] = i
ERegistered(s, i, j) == Len(s.e_tables) > i /\ Len(s.e_tables[i + 1]) > j
NoKeyRegistered(s) ==
  \/ MapHas(s.vertex_label_to_index_, NoKey)
  \/ MapHas(s.edge_label_to_index_, NoKey)
  \/ \E t \in s.edge_vertex_label_ : NoKey \in {t[1], t[2], t[3]}
MissingKeyMsgs ==
  {"vertex files should contain label name", "edge files should contain label name",
   "edge files should contain src label name", "edge files should contain dst label name"}

SameELabelTwoIndices(s) ==
  \E i \in 1 .. Len(s.e_tables), k \in 1 .. Len(s.e_tables) :
     /\ i # k
     /\ \E a \in 1 .. Len(s.e_tables[i]), b \in 1 .. Len(s.e_tables[k]) :
          s.e_tables[i][a].label = s.e_tables[k][b].label

\* C17: a worker that has taken the tables of two sub-sources of one edge label
\* name under two different edge-label indices has raised an InvalidValue
\* error, with vertex files (loadEdgeTables) and without
\* (loadEVTablesFromEFiles), and a load that returns then returns that error.
C17_Original ==
  \A w \in Workers :
     SameELabelTwoIndices(ldr[w]) =>
       /\ ldr[w].raised.err.code = "InvalidValueError"
       /\ Returned(w) => ldr[w].ret.st = "error"
                           /\ ldr[w].ret.err.code = "InvalidValueError"

\* m is a bijection between its label names and 0 .. num - 1.
LabelBijection(m, num) ==
  /\ \A p \in m, q \in m : (p[1] = q[1] \/ p[2] = q[2]) => p = q
  /\ {p[2] : p \in m} = 0 .. (num - 1)

\* C18: on every worker whose LoadFragment has returned a fragment, the vertex
\* label map is a bijection between its names and 0 .. vertex_label_num_ - 1
\* and the edge label map one between its names and 0 .. edge_label_num_ - 1.
C18_Original ==
  \A w \in Workers :
     ldr[w].lf.st = "ok" =>
       /\ LabelBijection(ldr[w].vertex_label_to_index_, ldr[w].vertex_label_num_)
       /\ LabelBijection(ldr[w].edge_label_to_index_, ldr[w].edge_label_num_)

\* C19: the first pass numbers the src and dst label names of the same
\* sub-sources, met in any order, alike: the same name-to-index map and the
\* same vertex_label_num_, the names numbered 0, 1, 2, ... in lexicographic order.
C19_NumberingByNameSet ==
  (calc.fn = "NumberLabels" /\ calc.step = 1) =>
     /\ calc.out = calc.again
     /\ {p[2] : p \in calc.out.map} = 0 .. (calc.out.num - 1)
     /\ {p[1] : p \in calc.out.map}
          = {DiscoveredNames(calc.arg.a)[k] : k \in 1 .. Len(DiscoveredNames(calc.arg.a))}
     /\ \A p \in calc.out.map, q \in calc.out.map :
          LabelRank(p[1]) < LabelRank(q[1]) <=> p[2] < q[2]
\* Two orders that meet the names in different order, the later name of the
\* lexicographic order first in one of them.
C19_Witness ==
  /\ calc.fn = "NumberLabels" /\ calc.step = 1
  /\ DiscoveredNames(calc.arg.a)[1] = "v2"
  /\ DiscoveredNames(calc.arg.b)[1] = "v0"
  /\ calc.out.num = 3
  /\ calc.out = calc.again

\* C20: after the last sub-source, there is one vertex table per label name of
\* the e-files, and the table of label L holds the vertex ids that the tables
\* read hold in column 0 of a sub-source of src_label L or in column 1 of a
\* sub-source of dst_label L, each once, and no other.
C20_InducedVertexTables ==
  (calc.fn = "loadEVTablesFromEFiles" /\ calc.step = 2) =>
     LET names == {DiscoveredNames(calc.arg)[k] : k \in 1 .. Len(DiscoveredNames(calc.arg))}
         vt == calc.out.vtables
     IN /\ Len(vt) = Cardinality(names)
        /\ \A L \in names :
             \E k \in 1 .. Len(vt) :
                /\ vt[k].label = L
                /\ \A q \in 1 .. Len(vt) : vt[q].label = L => q = k
                /\ {vt[k].oids[i] : i \in 1 .. Len(vt[k].oids)}
                     = {p[2] : p \in {g \in calc.out.given : g[1] = L}}
                /\ \A i \in 1 .. Len(vt[k].oids), j \in 1 .. Len(vt[k].oids) :
                     vt[k].oids[i] = vt[k].oids[j] => i = j
\* Two sub-sources of labels v1 -> v0 and v0 -> v0 with a vertex id in both: the
\* table of v0 holds two ids met in a dst column and a src column, the table of
\* v1 one id.
C20_Witness ==
  /\ calc.fn = "loadEVTablesFromEFiles" /\ calc.step = 2
  /\ Len(FlatSubs(calc.arg)) = 2
  /\ FlatSubs(calc.arg)[1].src_label = "v1" /\ FlatSubs(calc.arg)[1].dst_label = "v0"
  /\ FlatSubs(calc.arg)[2].src_label = "v0" /\ FlatSubs(calc.arg)[2].dst_label = "v0"
  /\ calc.out.given = {<<"v1", 1>>, <<"v0", 1>>, <<"v0", 2>>}
  /\ \E k \in 1 .. 2 : calc.out.vtables[k].label = "v0"
                        /\ calc.out.vtables[k].oids = <<1, 2>>

\* The rows of the vertex tables of label index l before the shuffle, and the
\* partitions that hold a vertex id after it, once per row that holds it.
RowsShuffled == calc.fn = "shuffleAndBuild" /\ calc.step >= 2
InputOids(l) ==
  UNION {{calc.out.partial_v[w][l][i] : i \in 1 .. Len(calc.out.partial_v[w][l])} :
           w \in Workers}
Holders(l, oid) ==
  UNION {{<<fid, i>> : i \in {j \in 1 .. Len(calc.out.local_v[fid][l]) :
                                calc.out.local_v[fid][l][j] = oid}} : fid \in Fids}

\* C21: after the vertex shuffle, for every label every vertex id of the input
\* is in the table of exactly one partition, once, and that partition is
\* Assign(oid); the tables hold no other id.
C21_VertexShufflePartition ==
  RowsShuffled =>
    \A l \in 1 .. calc.out.labels.num :
       /\ \A oid \in InputOids(l) :
            /\ Cardinality(Holders(l, oid)) = 1
            /\ \A h \in Holders(l, oid) : h[1] = Assign(oid)
       /\ \A oid \in Oids \ InputOids(l) : Holders(l, oid) = {}
\* Without vertex files, two workers have met the same vertex id at the ends of
\* their edges, and one partition holds it.
C21_Witness ==
  /\ RowsShuffled
  /\ calc.arg.vfiles_empty
  /\ \E l \in 1 .. calc.out.labels.num, oid \in Oids :
       /\ \A w \in Workers : \E i \in 1 .. Len(calc.out.partial_v[w][l]) :
                                calc.out.partial_v[w][l][i] = oid
       /\ Cardinality(Holders(l, oid)) = 1

VertexMapSealed == calc.fn = "shuffleAndBuild" /\ calc.step >= 3
\* The (partition, label, oid) triples of the oid lists the builders were given.
Registered ==
  UNION {{<<fid, l - 1, calc.out.local_v[fid][l][i]>> :
            i \in 1 .. Len(calc.out.local_v[fid][l])} :
           <<fid, l>> \in Fids \X (1 .. calc.out.labels.num)}

EdgesShuffled == calc.fn = "shuffleAndBuild" /\ calc.step = 4

\* C23: in the edge shuffle the lookup of both ends of every edge row
\* succeeds, without vertex files and with them.
C23_Original ==
  EdgesShuffled =>
    /\ ~calc.out.edges.aborted
    /\ \A c \in calc.out.edges.calls : c.ret /\ c.gid # UnsetGid

\* C24: the resolver hands the edge shuffle no false and no unset GID: each of
\* its calls returns true with the GID of the vertex, or ends the process; and
\* when a lookup failed the shuffle has delivered no table.
C24_FailedLookupIsFatal ==
  EdgesShuffled =>
    /\ \A c \in calc.out.edges.calls :
         \/ c.aborted
         \/ c.ret /\ c.gid # UnsetGid
    /\ (\E c \in calc.out.edges.calls : c.aborted) =>
         /\ calc.out.edges.aborted
         /\ \A fid \in Fids : calc.out.edges.tables[fid] = <<>>
\* With vertex files, an edge whose source vertex is loaded and whose
\* destination vertex is in no vertex file: one lookup succeeds, one fails.
C24_Witness ==
  /\ EdgesShuffled
  /\ ~calc.arg.vfiles_empty
  /\ calc.out.edges.aborted
  /\ \E c \in calc.out.edges.calls : c.aborted
  /\ \E c \in calc.out.edges.calls : c.ret

\* The edge rows of the input whose two ends are in the vertex files.
EndsLoaded ==
  \A k \in 1 .. Len(calc.arg.erows) :
     /\ calc.arg.erows[k][1] \in calc.arg.vset[MapAt(calc.out.labels.map, calc.arg.desc.src_label) + 1]
     /\ calc.arg.erows[k][2] \in calc.arg.vset[MapAt(calc.out.labels.map, calc.arg.desc.dst_label) + 1]
Count(rows, r) == Cardinality({k \in 1 .. Len(rows) : rows[k] = r})
\* The ids behind the two GIDs of a row of the edge table of partition fid:
\* the entries of the vertex map with these GIDs, under the labels of the ends;
\* the source vertex is a vertex of fid.
RowsBehind(fid, grow) ==
  {<<s.oid, d.oid>> : <<s, d>> \in
     {x \in calc.out.vm \X calc.out.vm :
        /\ x[1].gid = grow[1] /\ x[2].gid = grow[2]
        /\ x[1].fid = fid
        /\ x[1].label = MapAt(calc.out.labels.map, calc.arg.desc.src_label)
        /\ x[2].label = MapAt(calc.out.labels.map, calc.arg.desc.dst_label)}}
EdgesBuilt(r) ==
  {x \in Fids \X (1 .. MaxEdges) :
     /\ x[2] <= Len(calc.out.edges.tables[x[1]])
     /\ RowsBehind(x[1], calc.out.edges.tables[x[1]][x[2]]) = {r}}

\* C25: with vertex files and every end of every edge row in them, the load
\* is not aborted; every vertex id of a vertex file is in the table of one
\* partition, once; every row of every edge table stands for exactly one row
\* of ids, and every row of ids is in the edge tables as often as in the input.
C25_ExplicitLoadComplete ==
  (EdgesShuffled /\ ~calc.arg.vfiles_empty /\ EndsLoaded) =>
    /\ ~calc.out.edges.aborted
    /\ \A l \in 1 .. calc.out.labels.num :
         /\ \A oid \in calc.arg.vset[l] : Cardinality(Holders(l, oid)) = 1
         /\ \A oid \in Oids \ calc.arg.vset[l] : Holders(l, oid) = {}
    /\ \A fid \in Fids : \A k \in 1 .. Len(calc.out.edges.tables[fid]) :
         Cardinality(RowsBehind(fid, calc.out.edges.tables[fid][k])) = 1
    /\ \A r \in Oids \X Oids : Cardinality(EdgesBuilt(r)) = Count(calc.arg.erows, r)
\* Two edge rows with the source vertices in two partitions, between the
\* labels v0 and v1, the same id being a vertex of both labels.
C25_Witness ==
  /\ EdgesShuffled /\ ~calc.arg.vfiles_empty /\ EndsLoaded
  /\ calc.arg.desc.src_label # calc.arg.desc.dst_label
  /\ calc.arg.vset[1] \cap calc.arg.vset[2] # {}
  /\ \A fid \in Fids : Len(calc.out.edges.tables[fid]) = 1

Fragments == {o \in store : o.id.kind = "frag"}

\* C26: the PropertyGraphSchema of the fragments of any two workers is the
\* same: partition count, vertex and edge label entries by index, the relation
\* pairs of every edge label, the names and types of the properties.
C26_SameGraphSchema ==
  \A a \in Fragments, b \in Fragments : a.schema = b.schema
\* Every worker has built its fragment; for the last source one worker had a
\* table and another had none; the edge label has a property column and, in
\* the load without vertex files, two relation pairs.
C26_Witness ==
  /\ \A w \in Workers : \E o \in Fragments : o.id.owner = w
  /\ \E w1 \in Workers, w2 \in Workers : ldr[w1].table.chunks # ldr[w2].table.chunks
  /\ \E o \in Fragments :
       /\ o.schema.fnum = Fnum
       /\ o.schema.edge_entries[1].props # <<>>
       /\ Cardinality(o.schema.edge_entries[1].relations) = 2
       /\ Len(o.schema.vertex_entries) = 2

\* The worker is inside one of the three load procedures.
Acquiring(w) == ldr[w].pc \in {"read_agreed", "schema_gathered", "schema_agreed"}

\* C27: io_deleter_ has closed every adaptor a load procedure created exactly
\* once when the procedure has returned, with tables or with an error; inside
\* the procedure only the adaptor of the source at hand is not yet closed, and
\* none is closed twice.
C27_AdaptorsClosedOnce ==
  \A w \in Workers :
     LET io == ldr[w].io
     IN /\ \A k \in 1 .. Len(io) : io[k].closes <= 1
        /\ \A k \in 1 .. (Len(io) - 1) : io[k].closes = 1
        /\ ~Acquiring(w) => \A k \in 1 .. Len(io) : io[k].closes = 1 /\ ~io[k].held
        /\ (Acquiring(w) /\ io # <<>>) => io[Len(io)].closes = 0
\* loadEdgeTables has returned the error of a vertex label that no vertex file
\* has (the exception of map::at), after loadVertexTables had returned its
\* tables: the adaptors of the vertex file and of the sub-source are closed.
C27_Witness ==
  \E w \in Workers :
     /\ ldr[w].raised.err.msg = "map::at"
     /\ ~Acquiring(w)
     /\ Len(ldr[w].io) >= 2
     /\ \A k \in 1 .. Len(ldr[w].io) : ldr[w].io[k].closes = 1

\* The stages of LoadFragment in the order of lines 187-192 and 278-381.
StageOrder ==
  <<"partitioner", "acquire", "vshuffle", "vm_seal", "eshuffle", "build", "seal", "persist">>
SealedVertexMap(w) == {o \in store : o.id = ObjId("vm", w)}

\* C28: the stages a worker has entered are the first ones of the fixed order,
\* in that order; a worker that has entered the edge shuffle, where the edge
\* endpoints are resolved, has sealed its vertex map; LoadFragment has
\* returned a handle only after all stages, the fragment being persisted.
C28_StagesInOrder ==
  \A w \in Workers :
     /\ Len(ldr[w].stages) <= Len(StageOrder)
     /\ ldr[w].stages = SubSeq(StageOrder, 1, Len(ldr[w].stages))
     /\ (\E k \in 1 .. Len(ldr[w].stages) : ldr[w].stages[k] = "eshuffle")
          => SealedVertexMap(w) # {}
     /\ "eshuffle" \in ldr[w].took_part => SealedVertexMap(w) # {}
     /\ ldr[w].lf.st = "ok" =>
          /\ ldr[w].stages = StageOrder
          /\ \E o \in FragmentOf(w) : o.persisted
\* LoadFragment has returned the handle of the fragment on one worker while
\* another is at an earlier stage.
C28_Witness ==
  \E w1 \in Workers, w2 \in Workers :
     /\ ldr[w1].lf.st = "ok" /\ ldr[w1].stages = StageOrder
     /\ ldr[w2].stages # <<>> /\ Len(ldr[w2].stages) < Len(StageOrder)

PersistedObject(id) == \E o \in store : o.id = id /\ o.persisted

\* C29: the id the coordinator has broadcast is that of a group in the store,
\* sealed and persisted; and the group id a worker has returned, coordinator
\* or not, is that of a persisted group.
C29_BroadcastAfterPersist ==
  /\ bcast_val # NoObject => bcast_val.kind = "group" /\ PersistedObject(bcast_val)
  /\ \A w \in Workers :
       (Returned(w) /\ ldr[w].ret.st = "ok") =>
          ldr[w].ret.id.kind = "group" /\ PersistedObject(ldr[w].ret.id)
\* A worker other than the coordinator has returned the id it received.
C29_Witness ==
  \E w \in Workers :
     /\ ~IsCoordinator(w)
     /\ Returned(w) /\ ldr[w].ret.st = "ok"
     /\ ldr[w].ret.id = bcast_val
     /\ PersistedObject(bcast_val)

\* C30: every worker that has called LoadFragmentAsFragmentGroup returns at
\* last, with a handle or an error, whichever workers fail on their own.
C30_Original == <>(\A w \in Workers : Returned(w))

\* C31: TypeLoosen of the contributions in another order returns, for every
\* column, the type it returned for them in the first order.
C31_Original ==
  (calc.fn = "TypeLoosen" /\ calc.step = 3 /\ IsOk(calc.out.err)) =>
    /\ IsOk(calc.again.out.err)
    /\ \A i \in 1 .. Len(calc.out.schema) :
         calc.again.out.schema[i].type = calc.out.schema[i].type

\* C32: when every worker contributes a table of columns of lattice types,
\* SyncSchema returns on every worker, without an error, its table cast to the
\* reconciled schema.
C32_Original ==
  (/\ calc.fn = "SyncSchema" /\ calc.step = 1
   /\ \A j \in 1 .. Len(calc.arg.tabs) : ~calc.arg.tabs[j].null)
    => /\ IsOk(calc.out.err)
       /\ ~calc.out.table.null
       /\ calc.out.table.schema = calc.out.schema

\* The chunks of every column of a table; none for a worker without a table.
ChunksOf(table) == IF table.null THEN <<>> ELSE table.chunks
Synced == calc.fn = "SyncSchema" /\ calc.step = 1 /\ IsOk(calc.out.err)

\* C33: after a SyncSchema without error the table of the worker has the
\* reconciled schema, which has the column count and names of the schemas
\* contributed and is the schema of the table of every other worker whose
\* SyncSchema succeeds; its columns hold what the local table held, nothing
\* for a worker without a table.
C33_SyncedTable ==
  Synced =>
    LET tabs == calc.arg.tabs
        own == tabs[calc.arg.rank + 1]
        nn == NonNullSchemas(tabs)
    IN /\ ~calc.out.table.null
       /\ calc.out.table.schema = calc.out.schema
       /\ Len(calc.out.table.schema) = Len(nn[1])
       /\ \A i \in 1 .. Len(nn[1]) : calc.out.table.schema[i].name = nn[1][i].name
       /\ \A r \in 0 .. (Len(tabs) - 1) :
            LET other == SyncSchema(r, tabs[r + 1], tabs)
            IN IsOk(other.err) => other.table.schema = calc.out.table.schema
       /\ Len(calc.out.table.chunks) = Len(calc.out.table.schema)
       /\ \A i \in 1 .. Len(calc.out.table.chunks) :
            calc.out.table.chunks[i] = IF own.null THEN 0 ELSE own.chunks[i]
\* The worker read an int64 column, another worker a float64 column: its table
\* is cast and keeps its chunk.
C33_Witness ==
  /\ Synced
  /\ ~calc.arg.tabs[calc.arg.rank + 1].null
  /\ calc.arg.tabs[calc.arg.rank + 1].schema[1].type = INT64
  /\ calc.out.table.schema[1].type = FLOAT64
  /\ calc.out.table.chunks = <<1>>
  /\ \E j \in 1 .. Len(calc.arg.tabs) : calc.arg.tabs[j].null

\* C34: when no worker has a table of the source, SyncSchema fails on the
\* worker of every rank with the invalid-operation error "Every schema is
\* empty" and leaves no table, an empty one neither; TypeLoosen, which every
\* worker applies to the same gathered schemas, returns that error also when
\* the first schema given has zero fields.
EverySchemaEmpty == GSError("InvalidOperationError", "Every schema is empty")
C34_EverySchemaEmpty ==
  /\ (/\ calc.fn = "SyncSchema" /\ calc.step = 1
      /\ NonNullSchemas(calc.arg.tabs) = <<>>)
       => /\ calc.out.err = EverySchemaEmpty
          /\ calc.out.table.null
          /\ \A r \in 0 .. (Len(calc.arg.tabs) - 1) :
               SyncSchema(r, calc.arg.tabs[r + 1], calc.arg.tabs).err = EverySchemaEmpty
  /\ (/\ calc.fn = "TypeLoosen" /\ calc.step = 1
      /\ \/ NonNullSchemas(calc.arg) = <<>>
         \/ FirstSchema(calc.arg) = <<>>)
       => calc.out.err = EverySchemaEmpty
\* The first schema has zero fields, a later one has a column.
C34_Witness ==
  /\ calc.fn = "TypeLoosen" /\ calc.step = 1
  /\ NonNullSchemas(calc.arg) # <<>>
  /\ FirstSchema(calc.arg) = <<>>
  /\ \E j \in 1 .. Len(calc.arg) : Len(calc.arg[j].schema) = 1
  /\ calc.out.err = EverySchemaEmpty
\* No worker has a table of the source.
C34_WitnessAbsent ==
  /\ calc.fn = "SyncSchema" /\ calc.step = 1
  /\ Len(calc.arg.tabs) = NumWorkers
  /\ NonNullSchemas(calc.arg.tabs) = <<>>
  /\ calc.out.err = EverySchemaEmpty

\* The (src_label, dst_label) pairs the sub-sources of an edge label declare.
DeclaredRelations(name) ==
  UNION {{<<cfg.efiles[i][j].src_label, cfg.efiles[i][j].dst_label>> :
            j \in {j \in 1 .. Len(cfg.efiles[i]) : cfg.efiles[i][j].label = name}} :
           i \in 1 .. Len(cfg.efiles)}

\* C35: in the PropertyGraphSchema of a fragment the entry of vertex label k
\* lists every column of the vertex table of label k, the id column 0 first;
\* the entry of edge label k lists the columns of its edge table without
\* columns 0 and 1, and as relations exactly the (src_label, dst_label) pairs
\* the sub-sources of that label declare.
C35_SchemaEntries ==
  \A o \in Fragments :
     LET s == ldr[o.id.owner]
     IN /\ Len(o.schema.vertex_entries) = s.vertex_label_num_
        /\ \A k \in 1 .. s.vertex_label_num_ :
             LET e == o.schema.vertex_entries[k]
                 cols == s.v_tables[k].schema
             IN /\ <<e.label, k - 1>> \in s.vertex_label_to_index_
                /\ Len(e.props) = Len(cols)
                /\ \A i \in 1 .. Len(cols) : e.props[i] = cols[i]
        /\ Len(o.schema.edge_entries) = s.edge_label_num_
        /\ \A k \in 1 .. s.edge_label_num_ :
             LET e == o.schema.edge_entries[k]
                 cols == LocalETableSchema(s.e_tables[k])
             IN /\ <<e.label, k - 1>> \in s.edge_label_to_index_
                /\ Len(e.props) = Len(cols) - 2
                /\ \A i \in 1 .. Len(e.props) : e.props[i] = cols[i + 2]
                /\ e.relations = DeclaredRelations(e.label)
\* A fragment of the load with a vertex file: the vertex entry lists the id
\* column a and two more columns, the edge entry the third column only.
C35_Witness ==
  \E o \in Fragments :
     /\ cfg.vfiles # <<>>
     /\ Len(o.schema.vertex_entries[1].props) = 3
     /\ o.schema.vertex_entries[1].props[1].name = "a"
     /\ Len(o.schema.edge_entries[1].props) = 1
     /\ o.schema.edge_entries[1].props[1].name \in {"p", "q"}
     /\ o.schema.edge_entries[1].relations = {<<"v0", "v0">>}
\* A fragment of the load without vertex files: two relation pairs.
C35_WitnessTwoRelations ==
  \E o \in Fragments :
     o.schema.edge_entries[1].relations = {<<"v0", "v0">>, <<"v0", "v1">>}

\* Two label names of the map have one index.
SharedIndex(m) == \E p \in m, q \in m : p # q /\ p[2] = q[2]
MultipleEdgeLabels == GSError("IOError", "Multiple edge labels are mapped to one index.")

\* C36: a worker whose label map gives two label names one index builds no
\* fragment: its LoadFragment returns an error, and that error is "Multiple
\* edge labels are mapped to one index." once the edges are shuffled; and
\* every index recorded in a label map is below the label count.
C36_SharedIndexFails ==
  \A w \in Workers :
     /\ (SharedIndex(ldr[w].vertex_label_to_index_) \/ SharedIndex(ldr[w].edge_label_to_index_))
          => /\ \A o \in Fragments : o.id.owner # w
             /\ ldr[w].lf.st # "ok"
             /\ (Returned(w) /\ ldr[w].ret.st # "fatal") => ldr[w].lf.st = "error"
             /\ (ldr[w].lf.st = "error" /\ ldr[w].lf.err.code = "IOError"
                   /\ "eshuffle" \in {ldr[w].stages[k] : k \in 1 .. Len(ldr[w].stages)})
                  => ldr[w].lf.err = MultipleEdgeLabels
     /\ \A p \in ldr[w].vertex_label_to_index_ : p[2] < ldr[w].vertex_label_num_
     /\ \A p \in ldr[w].edge_label_to_index_ : p[2] < ldr[w].edge_label_num_
\* Two sub-sources of one entry of the e-files declare the labels e0 and e1:
\* every worker has shuffled its edges and LoadFragment has failed.
C36_Witness ==
  \A w \in Workers :
     /\ ldr[w].edge_label_to_index_ = {<<"e0", 0>>, <<"e1", 0>>}
     /\ Returned(w)
     /\ ldr[w].lf.err = MultipleEdgeLabels
     /\ Fragments = {}

\* The edge sub-sources of a load with vertex files whose src_label or
\* dst_label is the label of no vertex file.
DeclaredVLabels == {cfg.vfiles[k].label : k \in 1 .. Len(cfg.vfiles)}
UndeclaredESources ==
  {<<i, j>> \in (0 .. (Len(cfg.efiles) - 1)) \X (0 .. (MaxESources - 1)) :
     /\ j < Len(cfg.efiles[i + 1])
     /\ LET d == cfg.efiles[i + 1][j + 1]
        IN /\ NoKey \notin {d.label, d.src_label, d.dst_label}
           /\ {d.src_label, d.dst_label} \ DeclaredVLabels # {}}

\* C37: in a load with vertex files, no worker registers a table or a label id
\* for an edge sub-source whose src_label or dst_label no vertex file declares;
\* the failed lookup is raised at that sub-source as an error of code IOError,
\* and a worker that returns from such a load returns an error, never an
\* exception; the label ids of a registered sub-source are those of its labels.
C37_UndeclaredLabelIsIOError ==
  cfg.vfiles # <<>> =>
    \A w \in Workers :
       /\ \A c \in UndeclaredESources : ~ERegistered(ldr[w], c[1], c[2])
       /\ \A i \in 1 .. Len(ldr[w].e_tables) : \A j \in 1 .. Len(ldr[w].e_tables[i]) :
            /\ <<cfg.efiles[i][j].src_label, ldr[w].e_tables[i][j].src>>
                 \in ldr[w].vertex_label_to_index_
            /\ <<cfg.efiles[i][j].dst_label, ldr[w].e_tables[i][j].dst>>
                 \in ldr[w].vertex_label_to_index_
       /\ ldr[w].raised.err.msg = "map::at"
            => /\ ldr[w].raised.err.code = "IOError"
               /\ <<ldr[w].raised.at.i, ldr[w].raised.at.j>> \in UndeclaredESources
       /\ (Returned(w) /\ UndeclaredESources # {})
            => /\ ldr[w].ret.st = "error"
               /\ ldr[w].ret.err.code = "IOError"
               /\ \A o \in Fragments : o.id.owner # w
\* The second sub-source of the entry names the src_label v1, the vertex file
\* declares v0: every worker has registered the first sub-source and returned
\* the I/O error of the lookup.
C37_Witness ==
  /\ cfg.vfiles = <<VDesc("v0")>>
  /\ \A w \in Workers :
       /\ Returned(w)
       /\ ldr[w].raised.err = GSError("IOError", "map::at")
       /\ ldr[w].raised.at = Cursor("e", 0, 1)
       /\ ERegistered(ldr[w], 0, 0)
       /\ ldr[w].ret.st = "error"

\* C38: when the constructor over streams has gathered the tables, the
\* vertex table at position i is the table of the label the map gives index
\* i, there are as many vertex tables as vertex labels, and the same holds of
\* the edge tables, also when a stream could not be read.
C38_Original ==
  (calc.fn = "streams" /\ calc.step >= 2) =>
    LET g == calc.out
    IN /\ Len(g.partial_v_tables_) = g.vertex_label_num_
       /\ \A i \in 1 .. Len(g.partial_v_tables_) :
            <<g.partial_v_tables_[i].label, i - 1>> \in g.vertex_label_to_index_
       /\ Len(g.partial_e_tables_) = g.edge_label_num_
       /\ \A i \in 1 .. Len(g.partial_e_tables_) :
            \A k \in 1 .. Len(g.partial_e_tables_[i]) :
               <<g.partial_e_tables_[i][k].label, i - 1>> \in g.edge_label_to_index_

\* C39: a cast that succeeds keeps the rows of the column: the result has the
\* length of the column, a null row is null in the result, and a row that is
\* not null holds the same number.
C39_Original ==
  (/\ calc.fn \in {"CastIntToDouble", "CastDateToInt"} /\ calc.step = 1
   /\ IsOk(calc.out.err))
    => LET in == calc.arg.in.slots
           out == calc.out.array.slots
       IN /\ Len(out) = Len(in)
          /\ \A i \in 1 .. Len(in) :
               /\ out[i].valid = in[i].valid
               /\ in[i].valid => out[i].raw = in[i].raw

\* C40: every byte written through the binding lies at an offset below the
\* size of the blob, and a call whose bytes would end past the end of the blob
\* fails and writes nothing.
C40_Original ==
  (calc.fn = "BlobBuilder" /\ calc.step > 0) =>
    /\ \A o \in calc.out.written : o < calc.out.size
    /\ (calc.arg.size > 0 /\ calc.arg.offset + calc.arg.size > calc.out.size)
         => /\ calc.out.st # "ok"
            /\ calc.out.written = calc.again.written

\* C10: the workers that have reconciled the schema of one source hold the
\* same reconciled schema, field names and types.
C10_SameReconciledSchema ==
  \A w1 \in Workers, w2 \in Workers :
     ldr[w1].norm.cur = ldr[w2].norm.cur => ldr[w1].norm.schema = ldr[w2].norm.schema
C10_Witness ==
  /\ \A w \in Workers :
       /\ ldr[w].pc = "schema_agreed" /\ ldr[w].waiting
       /\ ldr[w].norm.cur = ldr[w].cur /\ ldr[w].norm.schema # <<>>
  /\ \E a \in 1 .. NumWorkers, b \in 1 .. NumWorkers :
       /\ ~ldr[0].recv[a].tab.null /\ ~ldr[0].recv[b].tab.null
       /\ ldr[0].recv[a].tab.schema[1].type # ldr[0].recv[b].tab.schema[1].type

====
